---- MODULE Spec2Model ----
(***************************************************************************)
(* Model of the SVG path parsers of editlogo and of what is built on them. *)
(*                                                                         *)
(*   AdvancedSVGPathParser (parsePath, parseCommand, handlers)           *)
(*   parseSVGPath          (the simple line-only parser)                   *)
(*   processAdvancedSVGFile, analyzeShape          (specification FileSpec)*)
(*   analyzeShapeForZoom, createProgressiveDetailLevels       (ZoomSpec)   *)
(*   PerformanceOptimizer.batchProcessSVGs                    (BatchSpec)  *)
(*   ImprovedSVGViewer and ImprovedSVGProcessor               (ViewerSpec) *)
(*   ZoomableSVGViewer                                      (ZoomableSpec) *)
(*                                                                         *)
(* Both draw into a three.js Path/Shape; the three operations they use     *)
(* (moveTo, lineTo, closePath) are modelled by what they do to the         *)
(* shape's curve list and current point.                                   *)
(*                                                                         *)
(* Numbers.  Path coordinates are small integers or NaN (Number() of a     *)
(* field that is not a number).  Points stored in a shape are fixed-point  *)
(* values, Unit steps per coordinate unit, so that every sample of a       *)
(* Bezier curve with integer control points is exact.                      *)
(*                                                                         *)
(* Input.  pathData is a sequence of tokens: a command letter, a numeric   *)
(* field or a non-numeric field.  The parse loop reads the string left to  *)
(* right, so the model reveals the string one command chunk at a time:     *)
(* every step appends a chunk and runs the handler the loop runs for it.   *)
(* The only whole-string read, includes('Z') after the loop, is made by    *)
(* Finish on the complete string.                                          *)
(***************************************************************************)
EXTENDS Integers, Sequences, FiniteSets, TLC

VARIABLES
    impl,       \* which parser runs: "advanced" or "simple"
    pc,         \* "idle", "loop", "done" or "threw"
    pathData,   \* the path string read so far (tokens)
    parser,     \* fields of the AdvancedSVGPathParser instance
    shape,      \* the THREE.Shape parsePath builds
    emitted,    \* the handlers' resolved locals, one record per drawn command
    sp,         \* locals and path of the simple parseSVGPath
    file,       \* processAdvancedSVGFile: the paths of the file, the loop
                \* index, the locals shapes, curves, individualShapes, the
                \* console and the resolved result
    zoom,       \* analyzeShapeForZoom / createProgressiveDetailLevels: the
                \* analysed shape, the optimal settings and the levels
    batch,      \* PerformanceOptimizer.batchProcessSVGs: the inputs, the
                \* loop index, the pending promises and the results
    viewer,     \* ImprovedSVGViewer: props, state, processors and the
                \* processSVG calls in flight
    zoomable    \* ZoomableSVGViewer: zoomState and the other useState cells

vars == <<impl, pc, pathData, parser, shape, emitted, sp, file, zoom,
          batch, viewer, zoomable>>

(* the three components outside the parsers *)
components == <<batch, viewer, zoomable>>

(* the parsers, the file processing and the settings planner *)
converters == <<impl, pc, pathData, parser, shape, emitted, sp, file, zoom>>

----------------------------------------------------------------------------
(* Bounds of the explored input set *)

MaxCmds == 3        \* command chunks per path, full alphabet
MaxLineCmds == 7    \* command chunks per path, straight-line alphabet

----------------------------------------------------------------------------
(* Numbers *)

CubicDivisions == 50
QuadDivisions == 30
ArcDivisions == 50

Unit == CubicDivisions * CubicDivisions * CubicDivisions * 9

NaN == 0 - 2000000000

Add(a, b) == IF a = NaN \/ b = NaN THEN NaN ELSE a + b
Sub(a, b) == IF a = NaN \/ b = NaN THEN NaN ELSE a - b

(* a path coordinate as a stored point coordinate *)
Fx(a) == IF a = NaN THEN NaN ELSE a * Unit

Vec(x, y) == [x |-> x, y |-> y]

(* Vector2.equals: === on both coordinates, so NaN equals nothing *)
VecEquals(a, b) ==
    /\ a.x # NaN /\ a.y # NaN /\ b.x # NaN /\ b.y # NaN
    /\ a.x = b.x /\ a.y = b.y

----------------------------------------------------------------------------
(* Tokens of a path string *)

Cmd(c) == [k |-> "cmd", c |-> c, v |-> 0]
Num(v) == [k |-> "num", c |-> "", v |-> v]
Junk(s) == [k |-> "junk", c |-> s, v |-> 0]

CommandLetters ==
    {"M", "m", "L", "l", "H", "h", "V", "v", "C", "c", "S", "s",
     "Q", "q", "T", "t", "A", "a", "Z", "z"}

ToLowerCase(c) ==
    CASE c \in {"M", "m"} -> "m"
      [] c \in {"L", "l"} -> "l"
      [] c \in {"H", "h"} -> "h"
      [] c \in {"V", "v"} -> "v"
      [] c \in {"C", "c"} -> "c"
      [] c \in {"S", "s"} -> "s"
      [] c \in {"Q", "q"} -> "q"
      [] c \in {"T", "t"} -> "t"
      [] c \in {"A", "a"} -> "a"
      [] c \in {"Z", "z"} -> "z"
      [] OTHER -> c

(* pathData.match(/[MmLl..Zz][^MmLl..Zz]*/g): a chunk starts at every       *)
(* command letter and takes everything up to the next one; what precedes   *)
(* the first command letter matches nothing.                               *)
RECURSIVE MatchFrom(_, _, _)
MatchFrom(pd, i, acc) ==
    IF i > Len(pd) THEN acc
    ELSE IF pd[i].k = "cmd"
         THEN MatchFrom(pd, i + 1, Append(acc, [type |-> pd[i].c, text |-> <<>>]))
         ELSE IF acc = <<>>
              THEN MatchFrom(pd, i + 1, acc)
              ELSE MatchFrom(pd, i + 1,
                       [acc EXCEPT ![Len(acc)].text = Append(@, pd[i])])

Match(pd) == MatchFrom(pd, 1, <<>>)

(* command.slice(1).trim().split(/[\s,]+/).filter(Boolean).map(Number);    *)
(* coords[0] of the code is CoordsOf(command)[1] here                       *)
CoordsOf(command) ==
    [i \in 1..Len(command.text) |->
        IF command.text[i].k = "num" THEN command.text[i].v ELSE NaN]

(* pathData.includes(letter), for a command letter *)
Includes(pd, letter) ==
    \E i \in 1..Len(pd) : pd[i].k = "cmd" /\ pd[i].c = letter

----------------------------------------------------------------------------
(* THREE.Path / THREE.Shape *)

NewShape == [curves |-> <<>>, currentPoint |-> Vec(0, 0)]

MoveTo(sh, x, y) == [sh EXCEPT !.currentPoint = Vec(x, y)]

LineTo(sh, x, y) ==
    [curves |-> Append(sh.curves, [v1 |-> sh.currentPoint, v2 |-> Vec(x, y)]),
     currentPoint |-> Vec(x, y)]

(* closePath reads curves[0] and the last curve: with no curve it throws;  *)
(* it adds the closing line unless the two ends are equal, and leaves      *)
(* currentPoint alone.                                                     *)
ClosePath(sh) ==
    IF sh.curves = <<>>
    THEN [threw |-> TRUE, shape |-> sh]
    ELSE LET startPoint == sh.curves[1].v1
             endPoint == sh.curves[Len(sh.curves)].v2
         IN  [threw |-> FALSE,
              shape |-> IF ~VecEquals(startPoint, endPoint)
                        THEN [sh EXCEPT !.curves =
                                 Append(@, [v1 |-> endPoint, v2 |-> startPoint])]
                        ELSE sh]

(* for (let i = 1; i < points.length; i++) shape.lineTo(points[i].x,       *)
(* points[i].y): points[0] is points[1] here, so the lines go to           *)
(* points[2..]                                                             *)
LineToAll(sh, points) ==
    [curves |-> sh.curves \o
                  [j \in 1..(Len(points) - 1) |->
                      [v1 |-> IF j = 1 THEN sh.currentPoint ELSE points[j],
                       v2 |-> points[j + 1]]],
     currentPoint |-> IF Len(points) > 1 THEN points[Len(points)]
                                         ELSE sh.currentPoint]

----------------------------------------------------------------------------
(* Curves: Curve.getPoints(divisions) samples getPoint(d / divisions) for   *)
(* d = 0..divisions.  Control coordinates are path coordinates, samples    *)
(* are stored coordinates.  0 * NaN is NaN, so a NaN control coordinate    *)
(* makes every sample of that coordinate NaN.                              *)

(* CubicBezier(t, p0, p1, p2, p3) at t = d / n *)
CubicBezier(d, n, p0, p1, p2, p3) ==
    IF p0 = NaN \/ p1 = NaN \/ p2 = NaN \/ p3 = NaN THEN NaN
    ELSE LET k == n - d
         IN  (k * k * k * p0 + 3 * k * k * d * p1
                + 3 * k * d * d * p2 + d * d * d * p3)
             * (Unit \div (n * n * n))

(* QuadraticBezier(t, p0, p1, p2) at t = d / n *)
QuadraticBezier(d, n, p0, p1, p2) ==
    IF p0 = NaN \/ p1 = NaN \/ p2 = NaN THEN NaN
    ELSE LET k == n - d
         IN  (k * k * p0 + 2 * k * d * p1 + d * d * p2)
             * (Unit \div (n * n))

(* new THREE.CubicBezierCurve(v0, v1, v2, v3).getPoints(divisions) *)
CubicGetPoints(v0, v1, v2, v3, divisions) ==
    [j \in 1..(divisions + 1) |->
        Vec(CubicBezier(j - 1, divisions, v0[1], v1[1], v2[1], v3[1]),
            CubicBezier(j - 1, divisions, v0[2], v1[2], v2[2], v3[2]))]

(* new THREE.QuadraticBezierCurve(v0, v1, v2).getPoints(divisions) *)
QuadraticGetPoints(v0, v1, v2, divisions) ==
    [j \in 1..(divisions + 1) |->
        Vec(QuadraticBezier(j - 1, divisions, v0[1], v1[1], v2[1]),
            QuadraticBezier(j - 1, divisions, v0[2], v1[2], v2[2]))]

(* integer square root, by bisection *)
RECURSIVE ISqrtIn(_, _, _)
ISqrtIn(n, lo, hi) ==
    IF lo >= hi THEN lo
    ELSE LET mid == (lo + hi + 1) \div 2
         IN  IF mid * mid <= n THEN ISqrtIn(n, mid, hi)
                               ELSE ISqrtIn(n, lo, mid - 1)

ISqrt(n) == ISqrtIn(n, 0, 40000)

(* cos and sin of d * PI / 50, times TrigScale *)
CosTab ==
    <<1000, 998, 992, 982, 969, 951, 930, 905, 876, 844, 809, 771, 729, 685,
      637, 588, 536, 482, 426, 368, 309, 249, 187, 125, 63, 0, -63, -125,
      -187, -249, -309, -368, -426, -482, -536, -588, -637, -685, -729, -771,
      -809, -844, -876, -905, -930, -951, -969, -982, -992, -998, -1000>>

SinTab ==
    <<0, 63, 125, 187, 249, 309, 368, 426, 482, 536, 588, 637, 685, 729, 771,
      809, 844, 876, 905, 930, 951, 969, 982, 992, 998, 1000, 998, 992, 982,
      969, 951, 930, 905, 876, 844, 809, 771, 729, 685, 637, 588, 536, 482,
      426, 368, 309, 249, 187, 125, 63, 0>>

(* the scale of the two tables: cos 0 *)
TrigScale == CosTab[1]

(* createEllipticalArc: the centre is the midpoint of the two end points,  *)
(* the start and end angles are the directions of the two end points seen  *)
(* from it, so the curve sweeps half a turn (no turn when the end points   *)
(* coincide: atan2(0, 0) is 0 twice).  The flags and the rotation are      *)
(* not used, and the constructor does not throw: the result is never null. *)
(* The arc is kept as twice its centre (cx2, cy2), its radii, and its      *)
(* start angle as the direction (dx, dy) with 1000 times its length.       *)
CreateEllipticalArc(x1, y1, x2, y2, rx, ry) ==
    LET dx == Sub(x1, x2)
        dy == Sub(y1, y2)
    IN  [cx2 |-> Add(x1, x2), cy2 |-> Add(y1, y2),
         dx |-> dx, dy |-> dy,
         R1000 |-> IF dx = NaN \/ dy = NaN THEN NaN
                   ELSE ISqrt((dx * dx + dy * dy) * 1000000),
         rx |-> rx, ry |-> ry]

(* EllipseCurve.getPoint(d / 50), one coordinate:                          *)
(*   centre + radius * cos or sin (startAngle + t * deltaAngle)            *)
(* with cos, sin of the start angle equal to dx / R, dy / R.  Fixed point, *)
(* three decimals for the trigonometry.                                    *)
EllipseOffset(radius, a, b, ct, st, R1000) ==
    ((radius * (a * ct - b * st) * 1000) \div R1000) * (Unit \div TrigScale)

EllipseGetPoint(arc, d) ==
    IF arc.cx2 = NaN \/ arc.cy2 = NaN
    THEN Vec(NaN, NaN)
    ELSE IF arc.dx = 0 /\ arc.dy = 0
    THEN Vec(IF arc.rx = NaN THEN NaN
             ELSE arc.cx2 * (Unit \div 2) + arc.rx * Unit,
             IF arc.ry = NaN THEN NaN ELSE arc.cy2 * (Unit \div 2))
    ELSE Vec(IF arc.rx = NaN THEN NaN
             ELSE arc.cx2 * (Unit \div 2)
                    + EllipseOffset(arc.rx, arc.dx, arc.dy,
                                    CosTab[d + 1], SinTab[d + 1], arc.R1000),
             IF arc.ry = NaN THEN NaN
             ELSE arc.cy2 * (Unit \div 2)
                    + EllipseOffset(arc.ry, arc.dy, 0 - arc.dx,
                                    CosTab[d + 1], SinTab[d + 1], arc.R1000))

EllipseGetPoints(arc, divisions) ==
    [j \in 1..(divisions + 1) |-> EllipseGetPoint(arc, j - 1)]

----------------------------------------------------------------------------
(* AdvancedSVGPathParser.  A handler takes and returns the record          *)
(*   [parser, shape, emitted, threw]                                       *)
(* coords is 1-based: coords[1] is the code's coords[0].                   *)

ResetParser ==
    [currentX |-> 0, currentY |-> 0, startX |-> 0, startY |-> 0,
     subpathStartX |-> 0, subpathStartY |-> 0,
     lastControlX |-> 0, lastControlY |-> 0]

(* what a handler resolved: the operation, the current point it started    *)
(* from, its control points and its end point, in path coordinates         *)
Resolved(op, isAbsolute, from, c1, c2, end) ==
    [op |-> op, abs |-> isAbsolute, from |-> from,
     c1 |-> c1, c2 |-> c2, end |-> end]

(* a relative coordinate taken as absolute *)
RelIgnoresCase(isAbsolute, base, c) == c

Rel(isAbsolute, base, c) == IF isAbsolute THEN c ELSE Add(base, c)

HandleMoveTo(st, coords, isAbsolute) ==
    IF Len(coords) >= 2
    THEN LET x == Rel(isAbsolute, st.parser.currentX, coords[1])
             y == Rel(isAbsolute, st.parser.currentY, coords[2])
         IN  [st EXCEPT !.parser.currentX = x,
                        !.parser.currentY = y,
                        !.shape = MoveTo(@, Fx(x), Fx(y)),
                        !.parser.subpathStartX = x,
                        !.parser.subpathStartY = y,
                        !.emitted = Append(@, Resolved("M", isAbsolute,
                                       <<st.parser.currentX, st.parser.currentY>>,
                                       <<x, y>>, <<x, y>>, <<x, y>>))]
    ELSE st

HandleLineTo(st, coords, isAbsolute) ==
    IF Len(coords) >= 2
    THEN LET x == Rel(isAbsolute, st.parser.currentX, coords[1])
             y == Rel(isAbsolute, st.parser.currentY, coords[2])
         IN  [st EXCEPT !.parser.currentX = x,
                        !.parser.currentY = y,
                        !.shape = LineTo(@, Fx(x), Fx(y)),
                        !.emitted = Append(@, Resolved("L", isAbsolute,
                                       <<st.parser.currentX, st.parser.currentY>>,
                                       <<x, y>>, <<x, y>>, <<x, y>>))]
    ELSE st

HandleHorizontalLine(st, coords, isAbsolute) ==
    IF Len(coords) >= 1
    THEN LET x == Rel(isAbsolute, st.parser.currentX, coords[1])
             y == st.parser.currentY
         IN  [st EXCEPT !.parser.currentX = x,
                        !.shape = LineTo(@, Fx(x), Fx(y)),
                        !.emitted = Append(@, Resolved("H", isAbsolute,
                                       <<st.parser.currentX, st.parser.currentY>>,
                                       <<x, y>>, <<x, y>>, <<x, y>>))]
    ELSE st

HandleVerticalLine(st, coords, isAbsolute) ==
    IF Len(coords) >= 1
    THEN LET x == st.parser.currentX
             y == Rel(isAbsolute, st.parser.currentY, coords[1])
         IN  [st EXCEPT !.parser.currentY = y,
                        !.shape = LineTo(@, Fx(x), Fx(y)),
                        !.emitted = Append(@, Resolved("V", isAbsolute,
                                       <<st.parser.currentX, st.parser.currentY>>,
                                       <<x, y>>, <<x, y>>, <<x, y>>))]
    ELSE st

(* the first control point remembered for the reflection *)
HandleCubicBezierFirstControl(st, coords, isAbsolute) ==
    IF Len(coords) >= 6
    THEN LET cur == <<st.parser.currentX, st.parser.currentY>>
             cp1 == <<Rel(isAbsolute, cur[1], coords[1]),
                      Rel(isAbsolute, cur[2], coords[2])>>
             cp2 == <<Rel(isAbsolute, cur[1], coords[3]),
                      Rel(isAbsolute, cur[2], coords[4])>>
             end == <<Rel(isAbsolute, cur[1], coords[5]),
                      Rel(isAbsolute, cur[2], coords[6])>>
             points == CubicGetPoints(cur, cp1, cp2, end, CubicDivisions)
         IN  [st EXCEPT !.shape = LineToAll(@, points),
                        !.parser.currentX = end[1],
                        !.parser.currentY = end[2],
                        !.parser.lastControlX = cp1[1],
                        !.parser.lastControlY = cp1[2],
                        !.emitted = Append(@, Resolved("C", isAbsolute, cur,
                                       cp1, cp2, end))]
    ELSE st

HandleCubicBezier(st, coords, isAbsolute) ==
    IF Len(coords) >= 6
    THEN LET cur == <<st.parser.currentX, st.parser.currentY>>
             cp1 == <<Rel(isAbsolute, cur[1], coords[1]),
                      Rel(isAbsolute, cur[2], coords[2])>>
             cp2 == <<Rel(isAbsolute, cur[1], coords[3]),
                      Rel(isAbsolute, cur[2], coords[4])>>
             end == <<Rel(isAbsolute, cur[1], coords[5]),
                      Rel(isAbsolute, cur[2], coords[6])>>
             points == CubicGetPoints(cur, cp1, cp2, end, CubicDivisions)
         IN  [st EXCEPT !.shape = LineToAll(@, points),
                        !.parser.currentX = end[1],
                        !.parser.currentY = end[2],
                        !.parser.lastControlX = cp2[1],
                        !.parser.lastControlY = cp2[2],
                        !.emitted = Append(@, Resolved("C", isAbsolute, cur,
                                       cp1, cp2, end))]
    ELSE st

(* the last control point taken without reflecting it *)
ReflectNot(current, lastControl) == lastControl

(* the first control point: currentX - (lastControlX - currentX) *)
Reflect(current, lastControl) == Sub(current, Sub(lastControl, current))

HandleSmoothCubicBezier(st, coords, isAbsolute) ==
    IF Len(coords) >= 4
    THEN LET cur == <<st.parser.currentX, st.parser.currentY>>
             cp1 == <<Reflect(cur[1], st.parser.lastControlX),
                      Reflect(cur[2], st.parser.lastControlY)>>
             cp2 == <<Rel(isAbsolute, cur[1], coords[1]),
                      Rel(isAbsolute, cur[2], coords[2])>>
             end == <<Rel(isAbsolute, cur[1], coords[3]),
                      Rel(isAbsolute, cur[2], coords[4])>>
             points == CubicGetPoints(cur, cp1, cp2, end, CubicDivisions)
         IN  [st EXCEPT !.shape = LineToAll(@, points),
                        !.parser.currentX = end[1],
                        !.parser.currentY = end[2],
                        !.parser.lastControlX = cp2[1],
                        !.parser.lastControlY = cp2[2],
                        !.emitted = Append(@, Resolved("S", isAbsolute, cur,
                                       cp1, cp2, end))]
    ELSE st

HandleQuadraticBezier(st, coords, isAbsolute) ==
    IF Len(coords) >= 4
    THEN LET cur == <<st.parser.currentX, st.parser.currentY>>
             cp == <<Rel(isAbsolute, cur[1], coords[1]),
                     Rel(isAbsolute, cur[2], coords[2])>>
             end == <<Rel(isAbsolute, cur[1], coords[3]),
                      Rel(isAbsolute, cur[2], coords[4])>>
             points == QuadraticGetPoints(cur, cp, end, QuadDivisions)
         IN  [st EXCEPT !.shape = LineToAll(@, points),
                        !.parser.currentX = end[1],
                        !.parser.currentY = end[2],
                        !.parser.lastControlX = cp[1],
                        !.parser.lastControlY = cp[2],
                        !.emitted = Append(@, Resolved("Q", isAbsolute, cur,
                                       cp, cp, end))]
    ELSE st

HandleSmoothQuadraticBezier(st, coords, isAbsolute) ==
    IF Len(coords) >= 2
    THEN LET cur == <<st.parser.currentX, st.parser.currentY>>
             cp == <<Reflect(cur[1], st.parser.lastControlX),
                     Reflect(cur[2], st.parser.lastControlY)>>
             end == <<Rel(isAbsolute, cur[1], coords[1]),
                      Rel(isAbsolute, cur[2], coords[2])>>
             points == QuadraticGetPoints(cur, cp, end, QuadDivisions)
         IN  [st EXCEPT !.shape = LineToAll(@, points),
                        !.parser.currentX = end[1],
                        !.parser.currentY = end[2],
                        !.parser.lastControlX = cp[1],
                        !.parser.lastControlY = cp[2],
                        !.emitted = Append(@, Resolved("T", isAbsolute, cur,
                                       cp, cp, end))]
    ELSE st

HandleArc(st, coords, isAbsolute) ==
    IF Len(coords) >= 7
    THEN LET cur == <<st.parser.currentX, st.parser.currentY>>
             rx == coords[1]
             ry == coords[2]
             end == <<Rel(isAbsolute, cur[1], coords[6]),
                      Rel(isAbsolute, cur[2], coords[7])>>
             arc == CreateEllipticalArc(cur[1], cur[2], end[1], end[2], rx, ry)
             points == EllipseGetPoints(arc, ArcDivisions)
         IN  [st EXCEPT !.shape = LineToAll(@, points),
                        !.parser.currentX = end[1],
                        !.parser.currentY = end[2],
                        !.emitted = Append(@, Resolved("A", isAbsolute, cur,
                                       end, end, end))]
    ELSE st

(* the current point reset to startX, startY, the fields reset() clears    *)
(* and nothing else writes                                                 *)
HandleClosePathToStart(st) ==
    LET r == ClosePath(st.shape)
    IN  IF r.threw
        THEN [st EXCEPT !.threw = TRUE]
        ELSE [st EXCEPT !.shape = r.shape,
                        !.parser.currentX = st.parser.startX,
                        !.parser.currentY = st.parser.startY,
                        !.emitted = Append(@, Resolved("Z", TRUE,
                              <<st.parser.currentX, st.parser.currentY>>,
                              <<st.parser.startX, st.parser.startY>>,
                              <<st.parser.startX, st.parser.startY>>,
                              <<st.parser.startX, st.parser.startY>>))]

HandleClosePath(st) ==
    LET r == ClosePath(st.shape)
    IN  IF r.threw
        THEN [st EXCEPT !.threw = TRUE]
        ELSE [st EXCEPT !.shape = r.shape,
                        !.parser.currentX = st.parser.subpathStartX,
                        !.parser.currentY = st.parser.subpathStartY,
                        !.emitted = Append(@, Resolved("Z", TRUE,
                              <<st.parser.currentX, st.parser.currentY>>,
                              <<st.parser.subpathStartX, st.parser.subpathStartY>>,
                              <<st.parser.subpathStartX, st.parser.subpathStartY>>,
                              <<st.parser.subpathStartX, st.parser.subpathStartY>>))]

(* parseCommand: the switch on the lowercased letter.  The default branch  *)
(* only logs.                                                              *)
ParseCommand(st, command) ==
    LET type == command.type
        coords == CoordsOf(command)
        t == ToLowerCase(type)
    IN  CASE t = "m" -> HandleMoveTo(st, coords, type = "M")
          [] t = "l" -> HandleLineTo(st, coords, type = "L")
          [] t = "h" -> HandleHorizontalLine(st, coords, type = "H")
          [] t = "v" -> HandleVerticalLine(st, coords, type = "V")
          [] t = "c" -> HandleCubicBezier(st, coords, type = "C")
          [] t = "s" -> HandleSmoothCubicBezier(st, coords, type = "S")
          [] t = "q" -> HandleQuadraticBezier(st, coords, type = "Q")
          [] t = "t" -> HandleSmoothQuadraticBezier(st, coords, type = "T")
          [] t = "a" -> HandleArc(st, coords, type = "A")
          [] t = "z" -> HandleClosePath(st)
          [] OTHER -> st

(* the final close left out *)
EndOfPathNoClose(st, pd) == st

(* parsePath after the loop: close unless the string holds a Z or z *)
EndOfPath(st, pd) ==
    IF ~Includes(pd, "Z") /\ ~Includes(pd, "z")
    THEN LET r == ClosePath(st.shape)
         IN  IF r.threw THEN [st EXCEPT !.threw = TRUE]
                        ELSE [st EXCEPT !.shape = r.shape]
    ELSE st

----------------------------------------------------------------------------
(* parseSVGPath, the simple parser.  Its locals and its path are the       *)
(* record [currentX, currentY, startX, startY, path, threw].               *)

NewSimple ==
    [currentX |-> 0, currentY |-> 0, startX |-> 0, startY |-> 0,
     path |-> NewShape, threw |-> FALSE]

(* coords[i] || 0: undefined, NaN and 0 all give 0 *)
OrZero(coords, i) ==
    IF i > Len(coords) THEN 0
    ELSE IF coords[i] = NaN THEN 0 ELSE coords[i]

SimpleMoveTo(s, coords, type) ==
    LET x == IF type = "M" THEN OrZero(coords, 1)
                           ELSE Add(s.currentX, OrZero(coords, 1))
        y == IF type = "M" THEN OrZero(coords, 2)
                           ELSE Add(s.currentY, OrZero(coords, 2))
    IN  [s EXCEPT !.currentX = x, !.currentY = y,
                  !.path = MoveTo(@, Fx(x), Fx(y)),
                  !.startX = x, !.startY = y]

SimpleLineTo(s, coords, type) ==
    IF Len(coords) >= 2
    THEN LET x == IF type = "L" THEN coords[1] ELSE Add(s.currentX, coords[1])
             y == IF type = "L" THEN coords[2] ELSE Add(s.currentY, coords[2])
         IN  [s EXCEPT !.currentX = x, !.currentY = y,
                       !.path = LineTo(@, Fx(x), Fx(y))]
    ELSE s

SimpleHorizontal(s, coords, type) ==
    LET x == IF type = "H" THEN OrZero(coords, 1)
                           ELSE Add(s.currentX, OrZero(coords, 1))
    IN  [s EXCEPT !.currentX = x,
                  !.path = LineTo(@, Fx(x), Fx(s.currentY))]

SimpleVertical(s, coords, type) ==
    LET y == IF type = "V" THEN OrZero(coords, 1)
                           ELSE Add(s.currentY, OrZero(coords, 1))
    IN  [s EXCEPT !.currentY = y,
                  !.path = LineTo(@, Fx(s.currentX), Fx(y))]

SimpleClose(s) ==
    LET r == ClosePath(s.path)
    IN  IF r.threw
        THEN [s EXCEPT !.threw = TRUE]
        ELSE [s EXCEPT !.path = r.shape,
                       !.currentX = s.startX, !.currentY = s.startY]

(* default: the curve and arc letters; a line to the first two numbers,    *)
(* taken as absolute whatever the case of the letter                       *)
SimpleDefault(s, coords) ==
    IF Len(coords) >= 2
    THEN [s EXCEPT !.currentX = coords[1], !.currentY = coords[2],
                   !.path = LineTo(@, Fx(coords[1]), Fx(coords[2]))]
    ELSE s

SimpleCommand(s, command) ==
    LET type == command.type
        coords == CoordsOf(command)
        t == ToLowerCase(type)
    IN  CASE t = "m" -> SimpleMoveTo(s, coords, type)
          [] t = "l" -> SimpleLineTo(s, coords, type)
          [] t = "h" -> SimpleHorizontal(s, coords, type)
          [] t = "v" -> SimpleVertical(s, coords, type)
          [] t = "z" -> SimpleClose(s)
          [] OTHER -> SimpleDefault(s, coords)

SimpleEndOfPath(s, pd) ==
    IF ~Includes(pd, "Z") /\ ~Includes(pd, "z")
    THEN LET r == ClosePath(s.path)
         IN  IF r.threw THEN [s EXCEPT !.threw = TRUE]
                        ELSE [s EXCEPT !.path = r.shape]
    ELSE s

----------------------------------------------------------------------------
(* The explored path strings *)

Seg(letter, nums) ==
    <<Cmd(letter)>> \o [i \in 1..Len(nums) |-> Num(nums[i])]

(* an unsupported letter glued to its first number, and a second number:   *)
(* the text "B10,10"                                                       *)
JunkText == <<Junk("B10"), Num(10)>>

(* chunks of the straight-line alphabet *)
LineSegments ==
    { Seg("m", <<5, 5>>), Seg("l", <<2, 0>>), Seg("l", <<0, 2>>),
      Seg("Z", <<>>) }

(* chunks of the full alphabet: every handler, absolute and relative       *)
(* forms, too few numbers, a second argument group, an unsupported letter  *)
Segments ==
    { Seg("M", <<4, 0>>), Seg("m", <<1, 1>>),
      Seg("L", <<2, 2, 0, 4>>), Seg("l", <<1, -1>>),
      Seg("L", <<2, 2>>) \o JunkText,
      Seg("h", <<-1>>), Seg("v", <<2>>),
      Seg("C", <<2, 0, 2, 2, 0, 2>>), Seg("c", <<1, 0, 1, 1, 0, 1>>),
      Seg("C", <<1, 2, 3, 4, 5>>),
      Seg("S", <<-1, 2, 0, 3>>), Seg("s", <<1, 1, 2, 0>>),
      Seg("Q", <<1, 3, 2, 0>>), Seg("q", <<1, 1, 2, 0>>),
      Seg("t", <<1, 2>>),
      Seg("A", <<1, 1, 0, 0, 1, 4, 0>>), Seg("a", <<2, 1, 90, 1, 0, 2, 0>>),
      Seg("z", <<>>) }

(* the chunks tried on the simple parser: its five cases and its default *)
SimpleSegments ==
    { Seg("M", <<4, 0>>), Seg("m", <<1, 1>>), Seg("M", <<4>>),
      Seg("L", <<2, 2, 0, 4>>), Seg("l", <<1, -1>>), Seg("L", <<3>>),
      Seg("L", <<2, 2>>) \o JunkText,
      Seg("h", <<-1>>), Seg("V", <<3>>),
      Seg("C", <<2, 0, 2, 2, 0, 2>>), Seg("c", <<1, 0, 1, 1, 0, 1>>),
      Seg("z", <<>>) }

(* text before the first command letter *)
Prefixes == { <<>>, JunkText }

LineChunks == { Match(s)[1] : s \in LineSegments }

(* pieces of text read so far: the chunks, and the text before the first *)
Pieces(pd) ==
    Cardinality({i \in 1..Len(pd) : pd[i].k = "cmd"})
      + (IF pd # <<>> /\ pd[1].k # "cmd" THEN 1 ELSE 0)

LineOnly(pd) ==
    LET commands == Match(pd)
    IN  /\ pd = <<>> \/ pd[1].k = "cmd"
        /\ \A i \in 1..Len(commands) : commands[i] \in LineChunks

(* the chunks that may follow pd within the bounds *)
NextSegments(pd, full) ==
    (IF Pieces(pd) < MaxCmds THEN full ELSE {})
      \cup (IF Pieces(pd) < MaxLineCmds /\ LineOnly(pd) THEN LineSegments ELSE {})

----------------------------------------------------------------------------
(* The state machine *)

(* no file is being processed, no shape is being analysed *)
NoFile == [pc |-> "none"]
NoZoom == [pc |-> "none"]

(* no batch runs, no viewer is mounted *)
NoBatch == [pc |-> "none"]
NoViewer == [pc |-> "none"]
NoZoomable == [pc |-> "none"]

State == [parser |-> parser, shape |-> shape, emitted |-> emitted, threw |-> FALSE]

Init ==
    /\ impl \in {"advanced", "simple"}
    /\ pc = "idle"
    /\ pathData = <<>>
    /\ parser = ResetParser
    /\ shape = NewShape
    /\ emitted = <<>>
    /\ sp = NewSimple
    /\ file = NoFile
    /\ zoom = NoZoom
    /\ batch = NoBatch
    /\ viewer = NoViewer
    /\ zoomable = NoZoomable

(* parsePath up to the loop: new Shape, reset(); the text before the first *)
(* command letter is read here                                             *)
ParsePath ==
    /\ impl = "advanced"
    /\ pc = "idle"
    /\ \E prefix \in Prefixes : pathData' = prefix
    /\ parser' = ResetParser
    /\ shape' = NewShape
    /\ emitted' = <<>>
    /\ pc' = "loop"
    /\ UNCHANGED <<impl, sp, file, zoom, components>>

(* one iteration of the loop of parsePath: the chunk seg is read and      *)
(* parseCommand runs on it                                                 *)
LoopStep(seg) ==
    LET commands == Match(pathData \o seg)
        r == ParseCommand(State, commands[Len(commands)])
    IN  /\ pathData' = pathData \o seg
        /\ parser' = r.parser
        /\ shape' = r.shape
        /\ emitted' = r.emitted
        /\ pc' = IF r.threw THEN "threw" ELSE "loop"
        /\ UNCHANGED <<impl, sp, file, zoom, components>>

MoveToStep ==
    /\ impl = "advanced"
    /\ pc = "loop"
    /\ \E seg \in NextSegments(pathData, Segments) :
          /\ ToLowerCase(seg[1].c) = "m"
          /\ LoopStep(seg)

LineToStep ==
    /\ impl = "advanced"
    /\ pc = "loop"
    /\ \E seg \in NextSegments(pathData, Segments) :
          /\ ToLowerCase(seg[1].c) = "l"
          /\ LoopStep(seg)

HorizontalLineStep ==
    /\ impl = "advanced"
    /\ pc = "loop"
    /\ \E seg \in NextSegments(pathData, Segments) :
          /\ ToLowerCase(seg[1].c) = "h"
          /\ LoopStep(seg)

VerticalLineStep ==
    /\ impl = "advanced"
    /\ pc = "loop"
    /\ \E seg \in NextSegments(pathData, Segments) :
          /\ ToLowerCase(seg[1].c) = "v"
          /\ LoopStep(seg)

CubicBezierStep ==
    /\ impl = "advanced"
    /\ pc = "loop"
    /\ \E seg \in NextSegments(pathData, Segments) :
          /\ ToLowerCase(seg[1].c) = "c"
          /\ LoopStep(seg)

SmoothCubicBezierStep ==
    /\ impl = "advanced"
    /\ pc = "loop"
    /\ \E seg \in NextSegments(pathData, Segments) :
          /\ ToLowerCase(seg[1].c) = "s"
          /\ LoopStep(seg)

QuadraticBezierStep ==
    /\ impl = "advanced"
    /\ pc = "loop"
    /\ \E seg \in NextSegments(pathData, Segments) :
          /\ ToLowerCase(seg[1].c) = "q"
          /\ LoopStep(seg)

SmoothQuadraticBezierStep ==
    /\ impl = "advanced"
    /\ pc = "loop"
    /\ \E seg \in NextSegments(pathData, Segments) :
          /\ ToLowerCase(seg[1].c) = "t"
          /\ LoopStep(seg)

ArcStep ==
    /\ impl = "advanced"
    /\ pc = "loop"
    /\ \E seg \in NextSegments(pathData, Segments) :
          /\ ToLowerCase(seg[1].c) = "a"
          /\ LoopStep(seg)

ClosePathStep ==
    /\ impl = "advanced"
    /\ pc = "loop"
    /\ \E seg \in NextSegments(pathData, Segments) :
          /\ ToLowerCase(seg[1].c) = "z"
          /\ LoopStep(seg)

(* parsePath after the loop *)
Finish ==
    /\ impl = "advanced"
    /\ pc = "loop"
    /\ LET r == EndOfPath(State, pathData)
       IN  /\ shape' = r.shape
           /\ pc' = IF r.threw THEN "threw" ELSE "done"
    /\ UNCHANGED <<impl, pathData, parser, emitted, sp, file, zoom, components>>

(* parseSVGPath up to its loop *)
SimpleStart ==
    /\ impl = "simple"
    /\ pc = "idle"
    /\ \E prefix \in Prefixes : pathData' = prefix
    /\ sp' = NewSimple
    /\ pc' = "loop"
    /\ UNCHANGED <<impl, parser, shape, emitted, file, zoom, components>>

(* one iteration of the loop of parseSVGPath *)
SimpleStep ==
    /\ impl = "simple"
    /\ pc = "loop"
    /\ \E seg \in NextSegments(pathData, SimpleSegments) :
        /\ LET commands == Match(pathData \o seg)
               r == SimpleCommand(sp, commands[Len(commands)])
           IN  /\ pathData' = pathData \o seg
               /\ sp' = r
               /\ pc' = IF r.threw THEN "threw" ELSE "loop"
    /\ UNCHANGED <<impl, parser, shape, emitted, file, zoom, components>>

SimpleFinish ==
    /\ impl = "simple"
    /\ pc = "loop"
    /\ LET r == SimpleEndOfPath(sp, pathData)
       IN  /\ sp' = r
           /\ pc' = IF r.threw THEN "threw" ELSE "done"
    /\ UNCHANGED <<impl, pathData, parser, shape, emitted, file, zoom, components>>

Next ==
    \/ ParsePath
    \/ MoveToStep
    \/ LineToStep
    \/ HorizontalLineStep
    \/ VerticalLineStep
    \/ CubicBezierStep
    \/ SmoothCubicBezierStep
    \/ QuadraticBezierStep
    \/ SmoothQuadraticBezierStep
    \/ ArcStep
    \/ ClosePathStep
    \/ Finish
    \/ SimpleStart
    \/ SimpleStep
    \/ SimpleFinish

Spec == Init /\ [][Next]_vars

TypeOK ==
    /\ impl \in {"advanced", "simple"}
    /\ pc \in {"idle", "loop", "done", "threw"}

----------------------------------------------------------------------------
(* Vocabulary of the properties *)

Commands == Match(pathData)

(* the numbers one command of a letter takes *)
GroupSize(type) ==
    CASE ToLowerCase(type) \in {"m", "l", "t"} -> 2
      [] ToLowerCase(type) \in {"h", "v"} -> 1
      [] ToLowerCase(type) \in {"s", "q"} -> 4
      [] ToLowerCase(type) = "c" -> 6
      [] ToLowerCase(type) = "a" -> 7
      [] OTHER -> 0

Numeric(command) ==
    \A i \in 1..Len(command.text) : command.text[i].k = "num"

HasEnoughNumbers(command) == Len(command.text) >= GroupSize(command.type)

(* a field that is not a number: an unsupported letter and what is glued   *)
(* to it                                                                   *)
HasUnsupportedLetter(pd) == \E i \in 1..Len(pd) : pd[i].k = "junk"

Current == <<parser.currentX, parser.currentY>>
SubpathStart == <<parser.subpathStartX, parser.subpathStartY>>
LastControl == <<parser.lastControlX, parser.lastControlY>>

MoveIndexes == {i \in 1..Len(emitted) : emitted[i].op = "M"}

LastOf(S) == CHOOSE i \in S : \A j \in S : j <= i
FirstOf(S) == CHOOSE i \in S : \A j \in S : i <= j

(* the outline the running parser returns *)
Outline == IF impl = "advanced" THEN shape ELSE sp.path

----------------------------------------------------------------------------
(* C1: a path string with a letter outside the command letters in command *)
(* position never parses successfully: parse fails instead of returning a *)
(* result in which the letter and its arguments were skipped.             *)
C1_UnsupportedLetterFails ==
    pc = "done" => ~HasUnsupportedLetter(pathData)

----------------------------------------------------------------------------
(* C2: a smooth command (S, s, T, t) that directly follows a curve of its *)
(* own family takes 2 * current - lastControl as its first control point, *)
(* lastControl being the last control point of the command before it, and *)
(* leaves its own last control point as lastControl.                      *)
SmoothAfterSameFamily ==
    /\ impl = "advanced"
    /\ pc = "loop"
    /\ Len(Commands) >= 2
    /\ LET c == Commands[Len(Commands)]
           p == Commands[Len(Commands) - 1]
       IN  /\ HasEnoughNumbers(c)
           /\ HasEnoughNumbers(p)
           /\ \/ ToLowerCase(c.type) = "s" /\ ToLowerCase(p.type) \in {"c", "s"}
              \/ ToLowerCase(c.type) = "t" /\ ToLowerCase(p.type) \in {"q", "t"}

C2_SmoothReflects ==
    SmoothAfterSameFamily =>
        LET e == emitted[Len(emitted)]
            p == emitted[Len(emitted) - 1]
        IN  /\ e.from = p.end
            /\ e.c1 = <<2 * e.from[1] - p.c2[1], 2 * e.from[2] - p.c2[2]>>
            /\ LastControl = e.c2

(* a chain: a smooth command after a smooth command after a curve, with   *)
(* a reflected control point away from the current point                  *)
C2_Witness ==
    /\ SmoothAfterSameFamily
    /\ Len(Commands) = 3
    /\ ToLowerCase(Commands[2].type) \in {"s", "t"}
    /\ ToLowerCase(Commands[1].type) \in {"c", "q"}
    /\ HasEnoughNumbers(Commands[1])
    /\ emitted[Len(emitted)].c1 # emitted[Len(emitted)].from

----------------------------------------------------------------------------
(* C3: an S not directly after a cubic curve, and a T not directly after  *)
(* a quadratic curve, takes the current point as its control point.       *)
SmoothAfterOther ==
    /\ impl = "advanced"
    /\ pc = "loop"
    /\ Commands # <<>>
    /\ LET c == Commands[Len(Commands)]
       IN  /\ HasEnoughNumbers(c)
           /\ ToLowerCase(c.type) \in {"s", "t"}
           /\ \/ Len(Commands) = 1
              \/ LET p == Commands[Len(Commands) - 1]
                 IN  \/ ToLowerCase(c.type) = "s"
                        /\ ToLowerCase(p.type) \notin {"c", "s"}
                     \/ ToLowerCase(c.type) = "t"
                        /\ ToLowerCase(p.type) \notin {"q", "t"}

C3_SmoothAfterOtherUsesCurrent ==
    SmoothAfterOther =>
        emitted[Len(emitted)].c1 = emitted[Len(emitted)].from

----------------------------------------------------------------------------
(* C4: the subpath start is the point the most recent M or m moved to,    *)
(* whatever came after it, and right after a Z or z the current point is  *)
(* that point.                                                            *)
LastMovePoint ==
    IF MoveIndexes = {} THEN <<0, 0>> ELSE emitted[LastOf(MoveIndexes)].end

C4_SubpathStart ==
    (impl = "advanced" /\ pc \in {"loop", "done"}) =>
        /\ SubpathStart = LastMovePoint
        /\ (pc = "loop" /\ Commands # <<>>
              /\ ToLowerCase(Commands[Len(Commands)].type) = "z")
             => Current = LastMovePoint

(* a Z in a second subpath: the current point is the second M's point and *)
(* not the first point of the path                                        *)
C4_Witness ==
    /\ impl = "advanced"
    /\ pc = "loop"
    /\ Commands # <<>>
    /\ ToLowerCase(Commands[Len(Commands)].type) = "z"
    /\ Cardinality(MoveIndexes) >= 2
    /\ Current = LastMovePoint
    /\ Current # emitted[FirstOf(MoveIndexes)].end
    /\ Fx(Current[1]) # shape.curves[1].v1.x

----------------------------------------------------------------------------
(* C5: one letter followed by k complete argument groups gives k commands *)
(* of that kind: a path made of complete groups resolves as many commands *)
(* as it has groups.                                                      *)
Groups(command) ==
    IF GroupSize(command.type) = 0 THEN 1
    ELSE Len(command.text) \div GroupSize(command.type)

CompleteGroups(command) ==
    /\ Numeric(command)
    /\ IF GroupSize(command.type) = 0
       THEN command.text = <<>>
       ELSE /\ Len(command.text) >= GroupSize(command.type)
            /\ Len(command.text) % GroupSize(command.type) = 0

RECURSIVE SumGroups(_, _)
SumGroups(commands, i) ==
    IF i > Len(commands) THEN 0
    ELSE Groups(commands[i]) + SumGroups(commands, i + 1)

C5_EveryGroupIsACommand ==
    (/\ impl = "advanced"
     /\ pc = "loop"
     /\ ~HasUnsupportedLetter(pathData)
     /\ \A i \in 1..Len(Commands) : CompleteGroups(Commands[i]))
    => Len(emitted) = SumGroups(Commands, 1)

----------------------------------------------------------------------------
(* C6: a lowercase command with offsets d resolves to the same            *)
(* coordinates, the same outline and the same current point as the        *)
(* uppercase command given the current point plus d, every control point  *)
(* and the end point being offset from the current point at the start of  *)
(* the command: every step of the loop on a lowercase command leaves what *)
(* the uppercase command leaves (in the simple parser for m, l, h, v).    *)
UpperCase(t) ==
    CASE t = "m" -> "M" [] t = "l" -> "L" [] t = "h" -> "H" [] t = "v" -> "V"
      [] t = "c" -> "C" [] t = "s" -> "S" [] t = "q" -> "Q" [] t = "t" -> "T"
      [] t = "a" -> "A"

(* the offsets d as absolute coordinates from the current point cx, cy *)
Absolute(t, d, cx, cy) ==
    CASE t = "h" -> <<cx + d[1]>>
      [] t = "v" -> <<cy + d[1]>>
      [] t = "a" -> <<d[1], d[2], d[3], d[4], d[5], cx + d[6], cy + d[7]>>
      [] OTHER -> [i \in 1..Len(d) |-> IF i % 2 = 1 THEN cx + d[i] ELSE cy + d[i]]

ChunkOf(letter, nums) == Match(Seg(letter, nums))[1]

(* the loop has just run a lowercase command c that has its numbers *)
RelativeStep(c) ==
    /\ pc = "loop" /\ pc' = "loop"
    /\ pathData' # pathData
    /\ c = Match(pathData')[Len(Match(pathData'))]
    /\ c.type \in {"m", "l", "h", "v", "c", "s", "q", "t", "a"}
    /\ Numeric(c)
    /\ HasEnoughNumbers(c)

SameAsAbsolute(c) ==
    IF impl = "advanced"
    THEN LET r == ParseCommand(State,
                      ChunkOf(UpperCase(c.type),
                              Absolute(c.type, CoordsOf(c),
                                       parser.currentX, parser.currentY)))
         IN  /\ r.parser = parser'
             /\ r.shape = shape'
             /\ Len(r.emitted) = Len(emitted')
             /\ Len(emitted') = Len(emitted) + 1
             /\ r.emitted[Len(r.emitted)].abs
             /\ ~emitted'[Len(emitted')].abs
             /\ [r.emitted[Len(r.emitted)] EXCEPT !.abs = FALSE]
                  = emitted'[Len(emitted')]
    ELSE c.type \in {"m", "l", "h", "v"} =>
             sp' = SimpleCommand(sp,
                      ChunkOf(UpperCase(c.type),
                              Absolute(c.type, CoordsOf(c),
                                       sp.currentX, sp.currentY)))

----------------------------------------------------------------------------
(* C7: a path of one subpath of straight segments, with at least 3 points *)
(* and no Z, gives the closed outline the same path with a trailing Z     *)
(* gives.                                                                 *)
StraightLetters == {"l", "h", "v"}

OneOpenStraightSubpath ==
    /\ pc = "loop"
    /\ ~HasUnsupportedLetter(pathData)
    /\ Len(Commands) >= 3
    /\ ToLowerCase(Commands[1].type) = "m"
    /\ \A i \in 2..Len(Commands) : ToLowerCase(Commands[i].type) \in StraightLetters
    /\ \A i \in 1..Len(Commands) : HasEnoughNumbers(Commands[i])

(* every curve starts where the one before it ends, and the last one ends *)
(* where the first one starts                                             *)
ClosedOutline(sh) ==
    /\ sh.curves # <<>>
    /\ \A i \in 1..(Len(sh.curves) - 1) : sh.curves[i].v2 = sh.curves[i + 1].v1
    /\ sh.curves[Len(sh.curves)].v2 = sh.curves[1].v1

ZChunk == ChunkOf("Z", <<>>)

C7_AutoCloseEqualsExplicitClose ==
    /\ (impl = "advanced" /\ OneOpenStraightSubpath) =>
          LET open == EndOfPath(State, pathData)
              closed == EndOfPath(ParseCommand(State, ZChunk),
                                  pathData \o Seg("Z", <<>>))
          IN  /\ ~open.threw /\ ~closed.threw
              /\ open.shape.curves = closed.shape.curves
              /\ ClosedOutline(open.shape)
    /\ (impl = "simple" /\ OneOpenStraightSubpath) =>
          LET open == SimpleEndOfPath(sp, pathData)
              closed == SimpleEndOfPath(SimpleCommand(sp, ZChunk),
                                        pathData \o Seg("Z", <<>>))
          IN  /\ ~open.threw /\ ~closed.threw
              /\ open.path.curves = closed.path.curves
              /\ ClosedOutline(open.path)

(* the parse of an open subpath of 4 distinct corner points has ended:    *)
(* 3 lines and the closing line                                           *)
C7_Witness ==
    /\ impl = "advanced"
    /\ pc = "done"
    /\ ~Includes(pathData, "Z") /\ ~Includes(pathData, "z")
    /\ Len(Commands) = 4
    /\ ToLowerCase(Commands[1].type) = "m"
    /\ \A i \in 2..4 : ToLowerCase(Commands[i].type) = "l"
    /\ Len(shape.curves) = 4
    /\ ClosedOutline(shape)
    /\ \A i, j \in 1..4 : i # j => shape.curves[i].v1 # shape.curves[j].v1

----------------------------------------------------------------------------
(* C8: in the result of a parse no subpath is left open: every run of     *)
(* connected segments of the outline ends at the point it starts from,    *)
(* also when another subpath of the path has a Z.  Stated for paths of    *)
(* subpaths of at least 3 points, each an M and lines, a Z or none.       *)
RECURSIVE RunStart(_, _)
RunStart(curves, i) ==
    IF i = 1 \/ curves[i - 1].v2 # curves[i].v1
    THEN curves[i].v1
    ELSE RunStart(curves, i - 1)

EndsRun(curves, i) ==
    i = Len(curves) \/ curves[i].v2 # curves[i + 1].v1

SubpathsOfMoveAndLines ==
    /\ ~HasUnsupportedLetter(pathData)
    /\ Commands # <<>>
    /\ ToLowerCase(Commands[1].type) = "m"
    /\ \A i \in 1..Len(Commands) :
          /\ ToLowerCase(Commands[i].type) \in {"m", "l", "z"}
          /\ CompleteGroups(Commands[i])
          /\ Groups(Commands[i]) = 1
    /\ \A j \in 1..Len(Commands) :
          ToLowerCase(Commands[j].type) = "m" =>
              /\ j + 2 <= Len(Commands)
              /\ ToLowerCase(Commands[j + 1].type) = "l"
              /\ ToLowerCase(Commands[j + 2].type) = "l"

C8_EverySubpathClosed ==
    (pc = "done" /\ SubpathsOfMoveAndLines)
    => \A i \in 1..Len(Outline.curves) :
           EndsRun(Outline.curves, i)
             => Outline.curves[i].v2 = RunStart(Outline.curves, i)

----------------------------------------------------------------------------
(* C9: a command list of k subpaths of at least 3 points each gives k     *)
(* outlines, one per subpath; parsePath returns the outlines listed here. *)
Outlines == <<shape>>

(* the resolved commands are moves and lines, start with a move, none was *)
(* skipped, and every move is followed by at least 2 lines                *)
SubpathsOfThreePoints ==
    /\ emitted # <<>>
    /\ Len(emitted) = Len(Commands)
    /\ emitted[1].op = "M"
    /\ \A i \in 1..Len(emitted) : emitted[i].op \in {"M", "L", "H", "V"}
    /\ \A i \in MoveIndexes :
          /\ i + 2 <= Len(emitted)
          /\ emitted[i + 1].op # "M"
          /\ emitted[i + 2].op # "M"

C9_OneOutlinePerSubpath ==
    (impl = "advanced" /\ pc = "done" /\ SubpathsOfThreePoints)
    => Len(Outlines) = Cardinality(MoveIndexes)

----------------------------------------------------------------------------
(* C10: a command with fewer numbers than its letter takes makes parse    *)
(* fail: no parse ends successfully on a path that holds such a command.  *)
C10_TooFewNumbersFails ==
    pc = "done" => \A i \in 1..Len(Commands) : HasEnoughNumbers(Commands[i])

----------------------------------------------------------------------------
(* processAdvancedSVGFile: every path of a file goes through one parser    *)
(* instance, inside a try/catch of its own.                                *)

MaxPaths == 2       \* paths per file

(* the reflection state left out of the reset *)
ResetKeepsControl(p) ==
    [ResetParser EXCEPT !.lastControlX = p.lastControlX,
                        !.lastControlY = p.lastControlY]

(* reset(): every field back to 0, whatever the parser p held *)
Reset(p) == ResetParser

RECURSIVE RunCommands(_, _, _)
(* for (const command of commands) this.parseCommand(command, shape); an   *)
(* exception leaves the loop                                               *)
RunCommands(st, commands, i) ==
    IF i > Len(commands) \/ st.threw THEN st
    ELSE RunCommands(ParseCommand(st, commands[i]), commands, i + 1)

(* parser.parsePath(pd) on the parser instance p, as a whole *)
ParsePathOf(p, pd) ==
    LET st == RunCommands([parser |-> Reset(p), shape |-> NewShape,
                           emitted |-> <<>>, threw |-> FALSE],
                          Match(pd), 1)
    IN  IF st.threw THEN st ELSE EndOfPath(st, pd)

(* Path.getPoints(divisions) of a shape of LineCurves: both ends of every  *)
(* curve, a point equal to the one pushed last left out (the point pushed  *)
(* last equals the point before, pushed or not)                            *)
IsPushed(q) == q.first \/ ~VecEquals(q.prev, q.cur)

ShapeGetPoints(sh) ==
    LET pts == [k \in 1..(2 * Len(sh.curves)) |->
                   IF k % 2 = 1 THEN sh.curves[(k + 1) \div 2].v1
                                ELSE sh.curves[k \div 2].v2]
        pushed == SelectSeq([j \in 1..Len(pts) |->
                                [first |-> j = 1,
                                 prev |-> pts[IF j = 1 THEN 1 ELSE j - 1],
                                 cur |-> pts[j]]],
                            IsPushed)
    IN  [j \in 1..Len(pushed) |-> pushed[j].cur]

Infinity == 2000000000

(* Math.min, Math.max and the subtraction of the size, on stored           *)
(* coordinates, NaN and the two infinities                                 *)
MathMin(a, b) == IF a = NaN \/ b = NaN THEN NaN ELSE IF a < b THEN a ELSE b
MathMax(a, b) == IF a = NaN \/ b = NaN THEN NaN ELSE IF a > b THEN a ELSE b

Minus(a, b) ==
    IF a = NaN \/ b = NaN THEN NaN
    ELSE IF a = 0 - Infinity /\ b = Infinity THEN 0 - Infinity
    ELSE a - b

(* points.forEach(point => { minX = Math.min(minX, point.x); ... }): the   *)
(* least (greatest) of the start value and a set of coordinates            *)
MinOf(start, values) ==
    IF NaN \in values THEN NaN
    ELSE CHOOSE m \in values \cup {start} :
             \A v \in values \cup {start} : MathMin(m, v) = m

MaxOf(start, values) ==
    IF NaN \in values THEN NaN
    ELSE CHOOSE m \in values \cup {start} :
             \A v \in values \cup {start} : MathMax(m, v) = m

(* pathData.match(/[CcSsQqTtAa]/g).length *)
CurveLetters == {"C", "c", "S", "s", "Q", "q", "T", "t", "A", "a"}

CountCurveLetters(pd) ==
    Cardinality({j \in 1..Len(pd) : pd[j].k = "cmd" /\ pd[j].c \in CurveLetters})

CurveWeight == 10

(* complexity = points.length + curveCount * 10 *)
Complexity(pointCount, curveCount) == pointCount + curveCount * CurveWeight

AnalyzeShape(sh, pd) ==
    LET points == ShapeGetPoints(sh)
        xs == {points[j].x : j \in 1..Len(points)}
        ys == {points[j].y : j \in 1..Len(points)}
        box == [minX |-> MinOf(Infinity, xs), minY |-> MinOf(Infinity, ys),
                maxX |-> MaxOf(0 - Infinity, xs),
                maxY |-> MaxOf(0 - Infinity, ys)]
        curveCount == CountCurveLetters(pd)
    IN  [boundingBox |-> [min |-> Vec(box.minX, box.minY),
                          max |-> Vec(box.maxX, box.maxY),
                          size |-> Vec(Minus(box.maxX, box.minX),
                                       Minus(box.maxY, box.minY))],
         complexity |-> Complexity(Len(points), curveCount),
         curveCount |-> curveCount]

(* the square drawn when no shape was created *)
FallbackShape ==
    ClosePath(
        LineTo(LineTo(LineTo(MoveTo(NewShape, Fx(-10), Fx(-10)),
                             Fx(10), Fx(-10)),
                      Fx(10), Fx(10)),
               Fx(-10), Fx(10))).shape

(* The d attributes tried in a file *)
MoveToOrigin == Seg("M", <<0, 0>>)

EmptyPath == <<>>
MoveOnlyPath == MoveToOrigin
TwoPointPath == MoveToOrigin \o Seg("L", <<4, 0>>)
TrianglePath == MoveToOrigin \o Seg("L", <<4, 0>>) \o Seg("L", <<4, 4>>)
ReflectionPath ==
    MoveToOrigin \o Seg("C", <<10, 0, 10, 10, 0, 10>>)
                 \o Seg("S", <<-10, 20, 0, 30>>)
ZeroRadiiArcPath == MoveToOrigin \o Seg("A", <<0, 0, 0, 0, 1, 4, 0>>)
CoincidentArcPath ==
    MoveToOrigin \o Seg("L", <<2, 0>>) \o Seg("A", <<1, 1, 0, 0, 1, 2, 0>>)
CubicPath == MoveToOrigin \o Seg("C", <<2, 0, 2, 2, 0, 2>>)
CubicRepeatPath ==
    MoveToOrigin \o Seg("C", <<2, 0, 2, 2, 0, 2, 1, 0, 1, 1, 0, 1>>)
QuadraticPath == MoveToOrigin \o Seg("Q", <<1, 3, 2, 0>>)
SmoothFirstPath == Seg("m", <<1, 1>>) \o Seg("s", <<1, 1, 2, 0>>)

FilePaths ==
    { EmptyPath, MoveOnlyPath, TwoPointPath, TrianglePath, ReflectionPath,
      ZeroRadiiArcPath, CoincidentArcPath, CubicPath, CubicRepeatPath,
      QuadraticPath, SmoothFirstPath }

Files == UNION { [1..n -> FilePaths] : n \in 0..MaxPaths }

(* the file handed to processAdvancedSVGFile, before the reader answers *)
NewFile(paths) ==
    [pc |-> "reading", paths |-> paths, i |-> 1,
     shapes |-> <<>>, curves |-> <<>>, individualShapes |-> <<>>,
     console |-> <<>>,
     result |-> [success |-> FALSE, error |-> "", shapes |-> <<>>,
                 curves |-> <<>>, individualShapes |-> <<>>]]

(* the promise resolved with success: true and its data *)
FileIsResolved == file.pc = "resolved" /\ file.result.success

FileInit ==
    /\ impl = "advanced"
    /\ pc = "idle"
    /\ pathData = <<>>
    /\ parser = ResetParser
    /\ shape = NewShape
    /\ emitted = <<>>
    /\ sp = NewSimple
    /\ zoom = NoZoom
    /\ batch = NoBatch
    /\ viewer = NoViewer
    /\ zoomable = NoZoomable
    /\ \E paths \in Files : file = NewFile(paths)

(* reader.onerror *)
ReadError ==
    /\ file.pc = "reading"
    /\ file' = [file EXCEPT !.pc = "resolved",
                            !.result.success = FALSE,
                            !.result.error = "Failed to read file"]
    /\ UNCHANGED <<impl, pc, pathData, parser, shape, emitted, sp, zoom, components>>

(* reader.onload up to the loop over the paths: new AdvancedSVGPathParser() *)
OnLoad ==
    /\ file.pc = "reading"
    /\ file' = [file EXCEPT !.pc = "loop"]
    /\ parser' = ResetParser
    /\ UNCHANGED <<impl, pc, pathData, shape, emitted, sp, zoom, components>>

(* one iteration of the loop over svgData.paths: the try block and its     *)
(* catch.  An empty d attribute is only warned about.                      *)
ProcessPathStep ==
    /\ file.pc = "loop"
    /\ file.i <= Len(file.paths)
    /\ LET d == file.paths[file.i]
           r == ParsePathOf(parser, d)
           analysis == AnalyzeShape(r.shape, d)
           points == ShapeGetPoints(r.shape)
       IN  IF d = <<>>
           THEN /\ file' = [file EXCEPT !.i = @ + 1,
                                !.console = Append(@, [level |-> "warn",
                                                       path |-> file.i])]
                /\ UNCHANGED <<pc, pathData, parser, shape, emitted>>
           ELSE /\ pathData' = d
                /\ parser' = r.parser
                /\ shape' = r.shape
                /\ emitted' = r.emitted
                /\ pc' = IF r.threw THEN "threw" ELSE "done"
                /\ file' =
                     IF r.threw
                     THEN [file EXCEPT !.i = @ + 1,
                                !.console = Append(@, [level |-> "error",
                                                       path |-> file.i])]
                     ELSE [file EXCEPT !.i = @ + 1,
                                !.shapes = Append(@, r.shape),
                                !.individualShapes = Append(@,
                                    [shape |-> r.shape,
                                     boundingBox |-> analysis.boundingBox,
                                     complexity |-> analysis.complexity,
                                     curveCount |-> analysis.curveCount,
                                     pathData |-> d,
                                     element |-> file.i]),
                                !.curves = IF Len(points) > 2
                                           THEN Append(@, points) ELSE @]
    /\ UNCHANGED <<impl, sp, zoom, components>>

(* after the loop: the fallback when no shape was created, then resolve *)
Resolve ==
    /\ file.pc = "loop"
    /\ file.i > Len(file.paths)
    /\ LET shapes == IF Len(file.shapes) = 0 THEN <<FallbackShape>>
                                             ELSE file.shapes
       IN  file' = [file EXCEPT
                       !.pc = "resolved",
                       !.shapes = shapes,
                       !.console = IF Len(file.shapes) = 0
                                   THEN Append(@, [level |-> "warn", path |-> 0])
                                   ELSE @,
                       !.result = [success |-> TRUE, error |-> "",
                                   shapes |-> shapes,
                                   curves |-> file.curves,
                                   individualShapes |-> file.individualShapes]]
    /\ UNCHANGED <<impl, pc, pathData, parser, shape, emitted, sp, zoom, components>>

(* createDetailedShape: shape.getPoints(settings.resolution).  Every curve *)
(* of a parsed shape is a LineCurve, which Path.getPoints samples at its   *)
(* two ends whatever the divisions asked for.                              *)
DetailPoints(sh, resolution) == ShapeGetPoints(sh)

(* the settings a caller hands to createZoomedDetailedGeometry *)
DetailResolutions == {25, 50, 100}

DetailSettings ==
    [resolution : DetailResolutions, curveSegments : {32}]

(* createZoomedDetailedGeometry(svgData, shapeIndex, settings) on the data *)
(* of the resolved result: null for an index past the shapes, else the     *)
(* points and the complexity of createDetailedShape (the extruded geometry *)
(* is left to three.js)                                                    *)
CreateZoomedDetailedGeometry ==
    /\ FileIsResolved
    /\ zoom = NoZoom
    /\ \E shapeIndex \in 0..Len(file.result.individualShapes) :
       \E settings \in DetailSettings :
          zoom' =
            IF shapeIndex >= Len(file.result.individualShapes)
            THEN [pc |-> "detailed", shapeIndex |-> shapeIndex,
                  settings |-> settings, isNull |-> TRUE,
                  points |-> <<>>, complexity |-> 0]
            ELSE LET points ==
                         DetailPoints(
                             file.result.individualShapes[shapeIndex + 1].shape,
                             settings.resolution)
                 IN  [pc |-> "detailed", shapeIndex |-> shapeIndex,
                      settings |-> settings, isNull |-> FALSE,
                      points |-> points,
                      complexity |-> Len(points)
                                       + settings.curveSegments * CurveWeight]
    /\ UNCHANGED <<impl, pc, pathData, parser, shape, emitted, sp, file, components>>

FileNext ==
    \/ ReadError
    \/ OnLoad
    \/ ProcessPathStep
    \/ Resolve
    \/ CreateZoomedDetailedGeometry

FileSpec == FileInit /\ [][FileNext]_vars

----------------------------------------------------------------------------
(* Vocabulary of the properties of a processed file *)

FileDone == file.pc = "resolved"

(* the paths whose processing threw, the paths that gave a shape *)
FailedPaths ==
    {file.console[k].path : k \in {j \in 1..Len(file.console) :
                                      file.console[j].level = "error"}}

ParsedPaths ==
    {file.individualShapes[k].element : k \in 1..Len(file.individualShapes)}

(* the distinct points of an outline *)
OutlinePoints(sh) ==
    LET points == ShapeGetPoints(sh)
    IN  {points[j] : j \in 1..Len(points)}

(* a shape of the result that no path of the file produced *)
IsSubstitute(sh) ==
    \A k \in 1..Len(file.result.individualShapes) :
        file.result.individualShapes[k].shape # sh

(* C11: an outline of fewer than 3 points never appears in the result,    *)
(* and a file none of whose paths gives a valid outline is answered with   *)
(* an error: for a file with a path, a successful result carries at least  *)
(* one outline, each of at least 3 points, each produced by a path of the  *)
(* file.                                                                   *)
C11_NoValidOutlinesIsAnError ==
    (/\ FileDone
     /\ file.result.success
     /\ \E j \in 1..Len(file.paths) : file.paths[j] # <<>>) =>
        /\ Len(file.result.shapes) > 0
        /\ \A k \in 1..Len(file.result.shapes) :
              /\ Cardinality(OutlinePoints(file.result.shapes[k])) >= 3
              /\ ~IsSubstitute(file.result.shapes[k])

(* C12: when a path fails the other paths are still processed, the shapes  *)
(* of the successful paths are in the result in input order, and the       *)
(* failure is reported in the result.                                      *)
C12_FailureReportedOthersProcessed ==
    FileDone /\ file.result.success =>
        /\ \A j \in 1..Len(file.paths) :
              file.paths[j] = <<>> \/ j \in FailedPaths \/ j \in ParsedPaths
        /\ \A k \in 1..(Len(file.result.individualShapes) - 1) :
              file.result.individualShapes[k].element
                 < file.result.individualShapes[k + 1].element
        /\ FailedPaths # {} => file.result.error # ""

(* the paths the loop has gone through *)
ProcessedPaths ==
    IF file.pc \in {"loop", "resolved"} /\ file.result.error = ""
    THEN 1..(file.i - 1) ELSE {}

(* what processing path j gave: the shape and its analysis, or the error *)
OutcomeOf(j) ==
    IF j \in FailedPaths THEN [kind |-> "error"]
    ELSE IF j \in ParsedPaths
    THEN LET e == file.individualShapes[
                      CHOOSE k \in 1..Len(file.individualShapes) :
                          file.individualShapes[k].element = j]
         IN  [kind |-> "shape", shape |-> e.shape,
              complexity |-> e.complexity, curveCount |-> e.curveCount,
              boundingBox |-> e.boundingBox]
    ELSE [kind |-> "skipped"]

C14_ReflectionExample ==
    (pathData = ReflectionPath /\ pc = "done") =>
        /\ Len(emitted) = 3
        /\ emitted[3].op = "S"
        /\ emitted[3].c1 = <<-10, 0>>

(* C14 amended: the synthesized control point is (-10, 10), which is the   *)
(* reflection of (10,10) through (0,10): 2 * (0,10) - (10,10); the curve   *)
(* drawn for the S command is the cubic with that first control point.     *)
C14_ReflectionExampleAmended ==
    (pathData = ReflectionPath /\ pc = "done") =>
        /\ Len(emitted) = 3
        /\ emitted[2].op = "C"
        /\ emitted[2].c2 = <<10, 10>>
        /\ emitted[3].op = "S"
        /\ emitted[3].from = <<0, 10>>
        /\ emitted[3].c1 = <<-10, 10>>
        /\ emitted[3].c1 = <<2 * 0 - 10, 2 * 10 - 10>>
        /\ shape.curves[CubicDivisions + 1].v2
              = CubicGetPoints(<<0, 10>>, <<-10, 10>>, <<-10, 20>>, <<0, 30>>,
                               CubicDivisions)[2]

C14_Witness ==
    /\ pathData = ReflectionPath
    /\ pc = "done"
    /\ file.pc = "loop"
    /\ file.individualShapes # <<>>
    /\ file.individualShapes[Len(file.individualShapes)].pathData = ReflectionPath

(* the shape and the path a detailed geometry was made of *)
DetailedEntry == file.result.individualShapes[zoom.shapeIndex + 1]

Detailed == zoom.pc = "detailed" /\ ~zoom.isNull

(* a path of a move and one absolute Bezier command: its end point *)
EndOfSingleCurve(pd) ==
    LET coords == CoordsOf(Match(pd)[2])
    IN  Vec(Fx(coords[Len(coords) - 1]), Fx(coords[Len(coords)]))

(* C15: the points of a cubic or quadratic Bezier command at a resolution  *)
(* start after the start point, end exactly at the command's end point,    *)
(* and are strictly more at a resolution M than at any resolution N < M.   *)
(* Taken on an outline of a move and one Bezier command, whose points are  *)
(* the start, the points of the curve and the closing point.               *)
C15_MorePointsAtHigherResolution ==
    (Detailed /\ DetailedEntry.pathData \in {CubicPath, QuadraticPath}) =>
        LET n == Len(zoom.points)
        IN  /\ n >= 3
            /\ zoom.points[1] = Vec(0, 0)
            /\ zoom.points[n - 1] = EndOfSingleCurve(DetailedEntry.pathData)
            /\ \A N \in DetailResolutions :
                  N < zoom.settings.resolution =>
                      n > Len(DetailPoints(DetailedEntry.shape, N))

(* C16: an arc command with rx = 0 and ry = 0, or with coincident start    *)
(* and end points, gives exactly one point, its end point: one straight    *)
(* segment from the current point to the end; a degraded flatten is        *)
(* recorded for the path and the parse does not fail.  Taken on paths that *)
(* end with such an arc: the arc is the last command, so after its one     *)
(* segment only the closing segment may follow.                            *)
C16_DegenerateArcIsOneLine ==
    \A pd \in {ZeroRadiiArcPath, CoincidentArcPath} :
        (file.pc = "loop" /\ pathData = pd) =>
            LET a == Len(emitted)
                k == Len(emitted) - 1
            IN  /\ pc = "done"
                /\ emitted[a].op = "A"
                /\ Len(shape.curves) \in {k, k + 1}
                /\ shape.curves[k].v1
                      = Vec(Fx(emitted[a].from[1]), Fx(emitted[a].from[2]))
                /\ shape.curves[k].v2
                      = Vec(Fx(emitted[a].end[1]), Fx(emitted[a].end[2]))
                /\ \E j \in 1..Len(file.console) :
                      /\ file.console[j].level = "warn"
                      /\ file.console[j].path = file.i - 1

(* paths of a move and one curved command that ends away from the start:   *)
(* the segments of their shape are those of the curve and the closing one  *)
SingleCurvePaths == {CubicPath, QuadraticPath, ZeroRadiiArcPath}

(* C17: within one build every curved command, cubic, quadratic or arc,    *)
(* is flattened at the same resolution: the shapes one file gives for two  *)
(* paths of a single curved command have the same number of segments.      *)
C17_OneResolutionPerBuild ==
    \A a \in 1..Len(file.individualShapes) :
    \A b \in 1..Len(file.individualShapes) :
        (/\ file.individualShapes[a].pathData \in SingleCurvePaths
         /\ file.individualShapes[b].pathData \in SingleCurvePaths) =>
            Len(file.individualShapes[a].shape.curves)
               = Len(file.individualShapes[b].shape.curves)

(* the curve commands of a path: the argument groups of its chunks with a  *)
(* curve letter, implicit repeats included                                 *)
RECURSIVE CurveCommandsFrom(_, _)
CurveCommandsFrom(commands, i) ==
    IF i > Len(commands) THEN 0
    ELSE (IF commands[i].type \in CurveLetters THEN Groups(commands[i]) ELSE 0)
           + CurveCommandsFrom(commands, i + 1)

CurveCommandCount(pd) == CurveCommandsFrom(Match(pd), 1)

(* C18: for every outline and its source path, complexityScore is          *)
(* pointCount + 10 * curveCommandCount, where curveCommandCount counts the *)
(* C, S, Q, T, A commands of the path, implicit repeats included, and      *)
(* pointCount is the number of points of the outline.                      *)
C18_ComplexityScore ==
    \A k \in 1..Len(file.individualShapes) :
        LET e == file.individualShapes[k]
        IN  /\ \A j \in 1..Len(Match(e.pathData)) :
                  CompleteGroups(Match(e.pathData)[j])
            /\ Match(e.pathData) # <<>>
            => e.complexity = Len(ShapeGetPoints(e.shape))
                                + 10 * CurveCommandCount(e.pathData)

(* the path x is the path y with more curve commands after it: curve       *)
(* chunks, or further argument groups of the curve command y ends with     *)
MoreCurveCommands(x, y) ==
    /\ Len(x) > Len(y)
    /\ SubSeq(x, 1, Len(y)) = y
    /\ \A j \in (Len(y) + 1)..Len(x) :
          x[j].k = "num" \/ (x[j].k = "cmd" /\ x[j].c \in CurveLetters)
    /\ \A j \in 1..Len(Match(x)) : CompleteGroups(Match(x)[j])
    /\ CurveCommandCount(x) > CurveCommandCount(y)

(* C19: of two paths identical except that one has strictly more curve     *)
(* commands, written with their own letters or as implicit repeats, the    *)
(* one with more curve commands has the strictly greater complexityScore.  *)
C19_MoreCurvesMoreComplex ==
    \A a \in 1..Len(file.individualShapes) :
    \A b \in 1..Len(file.individualShapes) :
        MoreCurveCommands(file.individualShapes[b].pathData,
                          file.individualShapes[a].pathData) =>
            file.individualShapes[b].complexity
               > file.individualShapes[a].complexity

----------------------------------------------------------------------------
(* analyzeShapeForZoom and createProgressiveDetailLevels.                  *)
(*                                                                         *)
(* The numbers of the settings need not be whole (complexity / 5,          *)
(* curveCount / 2, 0.05): they are kept in hundredths.                     *)

MaxPoints == 60     \* points of the analysed outline
MaxCurves == 60     \* curve letters of its path

Hundred == 100

Whole(n) == n * Hundred

(* the upper limit left out: Math.max(lo, x) *)
ClampLowOnly(lo, hi, x) == IF lo > x THEN lo ELSE x

(* the lower limit left out: Math.min(hi, x) *)
ClampHighOnly(lo, hi, x) == IF hi < x THEN hi ELSE x

(* Math.max(lo, Math.min(hi, x)) *)
Clamp(lo, hi, x) ==
    LET m == IF hi < x THEN hi ELSE x
    IN  IF lo > m THEN lo ELSE m

(* Math.floor(x) of a number that is not negative *)
Floor(x) == (x \div Hundred) * Hundred

(* x * multiplier *)
Times(x, multiplier) == (x * multiplier) \div Hundred

(* the lengths boundingBox.size.length() tried *)
SizeLengths == {0, 5, 40, 200}

(* the curve letters of the path: few, or ten thousand *)
CurveCounts == (0..MaxCurves) \cup {10000}

(* an entry of svgData.individualShapes, as analyzeShape fills it *)
ShapeEntries ==
    { [pointCount |-> n, curveCount |-> c,
       complexity |-> Complexity(n, c), sizeLength |-> l] :
        n \in 0..MaxPoints, c \in CurveCounts, l \in SizeLengths }

(* the bevel switched on from 5 curves on *)
HasBevelFromFive(curveCount) == curveCount >= 5

(* curveCount > 5: bevelEnabled *)
HasBevel(curveCount) == curveCount > 5

(* curveCount > 10: the thicker, larger bevel *)
HasHeavyBevel(curveCount) == curveCount > 10

(* analyzeShapeForZoom(svgData, shapeIndex) *)
AnalyzeShapeForZoom(individualShapes, shapeIndex) ==
    IF shapeIndex >= Len(individualShapes)
    THEN [isNull |-> TRUE]
    ELSE LET entry == individualShapes[shapeIndex + 1]
             complexity == Whole(entry.complexity)
             curveCount == Whole(entry.curveCount)
         IN  [isNull |-> FALSE,
              shape |-> entry,
              optimalSettings |->
                [resolution |-> Clamp(Whole(50), Whole(200), complexity \div 10),
                 extrudeDepth |-> Clamp(50, Whole(5),
                                        Whole(entry.sizeLength) \div 20),
                 bevelEnabled |-> HasBevel(entry.curveCount),
                 bevelThickness |-> IF HasHeavyBevel(entry.curveCount)
                                    THEN 30 ELSE 10,
                 bevelSize |-> IF HasHeavyBevel(entry.curveCount)
                               THEN 20 ELSE 5,
                 bevelSegments |-> Clamp(Whole(2), Whole(8), curveCount \div 2),
                 curveSegments |-> Clamp(Whole(32), Whole(128), complexity \div 5),
                 steps |-> Clamp(Whole(1), Whole(4),
                                 Floor(complexity \div 50))],
              analysis |->
                [complexity |-> entry.complexity,
                 curveCount |-> entry.curveCount,
                 isComplex |-> entry.complexity > 100,
                 hasManyCurves |-> entry.curveCount > 5,
                 size |-> entry.sizeLength]]

(* the multipliers of the last two levels exchanged *)
LevelsOutOfOrder ==
    << [level |-> 1, multiplier |-> 50, name |-> "Low Detail"],
       [level |-> 2, multiplier |-> Whole(1), name |-> "Medium Detail"],
       [level |-> 3, multiplier |-> Whole(4), name |-> "High Detail"],
       [level |-> 4, multiplier |-> Whole(2), name |-> "Ultra Detail"] >>

(* the four levels and their multipliers *)
Levels ==
    << [level |-> 1, multiplier |-> 50, name |-> "Low Detail"],
       [level |-> 2, multiplier |-> Whole(1), name |-> "Medium Detail"],
       [level |-> 3, multiplier |-> Whole(2), name |-> "High Detail"],
       [level |-> 4, multiplier |-> Whole(4), name |-> "Ultra Detail"] >>

(* createProgressiveDetailLevels(svgData, shapeIndex): the settings of     *)
(* every level; of the result of createDetailedShape, its complexity       *)
(* (the points of a parsed shape are the same at every resolution)         *)
CreateProgressiveDetailLevels(individualShapes, shapeIndex) ==
    LET analysis == AnalyzeShapeForZoom(individualShapes, shapeIndex)
        optimal == analysis.optimalSettings
    IN  IF analysis.isNull THEN <<>>
        ELSE [k \in 1..Len(Levels) |->
                LET multiplier == Levels[k].multiplier
                    settings ==
                      [resolution |-> Floor(Times(optimal.resolution, multiplier)),
                       extrudeDepth |-> optimal.extrudeDepth,
                       bevelEnabled |-> optimal.bevelEnabled,
                       bevelThickness |-> optimal.bevelThickness,
                       bevelSize |-> optimal.bevelSize,
                       bevelSegments |-> optimal.bevelSegments,
                       curveSegments |->
                           Floor(Times(optimal.curveSegments, multiplier)),
                       steps |-> MathMax(Whole(1),
                                         Floor(Times(optimal.steps, multiplier)))]
                IN  [level |-> Levels[k].level,
                     settings |-> settings,
                     result |->
                       [complexity |-> Whole(analysis.shape.pointCount)
                                         + settings.curveSegments * CurveWeight]]]

ZoomInit ==
    /\ impl = "advanced"
    /\ pc = "idle"
    /\ pathData = <<>>
    /\ parser = ResetParser
    /\ shape = NewShape
    /\ emitted = <<>>
    /\ sp = NewSimple
    /\ file = NoFile
    /\ batch = NoBatch
    /\ viewer = NoViewer
    /\ zoomable = NoZoomable
    /\ \E entry \in ShapeEntries :
          zoom = [pc |-> "idle", individualShapes |-> <<entry>>,
                  shapeIndex |-> 0, analysis |-> [isNull |-> TRUE],
                  levels |-> <<>>]

(* a call of analyzeShapeForZoom on the data *)
AnalyzeShapeForZoomCall ==
    /\ zoom.pc = "idle"
    /\ \E shapeIndex \in 0..Len(zoom.individualShapes) :
          zoom' = [zoom EXCEPT
                     !.pc = "analyzed",
                     !.shapeIndex = shapeIndex,
                     !.analysis = AnalyzeShapeForZoom(zoom.individualShapes,
                                                      shapeIndex)]
    /\ UNCHANGED <<impl, pc, pathData, parser, shape, emitted, sp, file, components>>

(* a call of createProgressiveDetailLevels on the data; analysis is the    *)
(* local of that name                                                      *)
CreateProgressiveDetailLevelsCall ==
    /\ zoom.pc = "idle"
    /\ \E shapeIndex \in 0..Len(zoom.individualShapes) :
          zoom' = [zoom EXCEPT
                     !.pc = "levels",
                     !.shapeIndex = shapeIndex,
                     !.analysis = AnalyzeShapeForZoom(zoom.individualShapes,
                                                      shapeIndex),
                     !.levels = CreateProgressiveDetailLevels(
                                    zoom.individualShapes, shapeIndex)]
    /\ UNCHANGED <<impl, pc, pathData, parser, shape, emitted, sp, file, components>>

ZoomNext ==
    \/ AnalyzeShapeForZoomCall
    \/ CreateProgressiveDetailLevelsCall

ZoomSpec == ZoomInit /\ [][ZoomNext]_vars

----------------------------------------------------------------------------
(* Vocabulary of the properties of the settings *)

Analysed == zoom.pc \in {"analyzed", "levels"} /\ ~zoom.analysis.isNull

HasLevels == zoom.pc = "levels" /\ ~zoom.analysis.isNull

(* complexityScore / 5 kept between 32 and 128, in hundredths *)
MediumCurveResolution(score) ==
    IF score <= 160 THEN Whole(32)
    ELSE IF score >= 640 THEN Whole(128)
    ELSE (Whole(score) \div 5)

(* C20: the Medium curveResolution is clamp(complexityScore / 5, 32, 128): *)
(* 32 for scores up to 160, 128 for scores of 640 or more,                 *)
(* complexityScore / 5 in between; the settings of the plan and the Medium *)
(* level of the ladder carry this same value.                              *)
C20_MediumCurveResolution ==
    /\ Analysed =>
          zoom.analysis.optimalSettings.curveSegments
             = MediumCurveResolution(zoom.analysis.analysis.complexity)
    /\ HasLevels =>
          /\ Levels[2].name = "Medium Detail"
          /\ zoom.levels[2].settings.curveSegments
                = MediumCurveResolution(zoom.analysis.analysis.complexity)
          /\ zoom.levels[2].settings.curveSegments
                = zoom.analysis.optimalSettings.curveSegments

(* the settings the planner produced: the optimal settings of the          *)
(* analysis and, after createProgressiveDetailLevels, those of each level  *)
ProducedSettings ==
    (IF Analysed THEN {zoom.analysis.optimalSettings} ELSE {})
      \cup (IF HasLevels
            THEN {zoom.levels[k].settings : k \in 1..Len(zoom.levels)}
            ELSE {})

(* C21: for every analysis, also of a path with 10,000 curve commands, no  *)
(* settings of the plan or of any of the four levels have a                *)
(* curveResolution greater than 512.                                       *)
C21_CurveResolutionCeiling ==
    \A settings \in ProducedSettings : settings.curveSegments <= Whole(512)

(* the four levels of a path with 10,000 curve letters, the last at 512 *)
C21_Witness ==
    /\ HasLevels
    /\ zoom.analysis.analysis.curveCount = 10000
    /\ Len(zoom.levels) = 4
    /\ zoom.levels[4].settings.curveSegments = Whole(512)

(* the multipliers of Low, Medium, High and Ultra: 0.5, 1.0, 2.0, 4.0 *)
LadderMultipliers == << 50, Whole(1), Whole(2), Whole(4) >>

(* the levels are four, numbered 1 to 4 in the order Low to Ultra *)
FourLevelsInOrder ==
    /\ Len(zoom.levels) = 4
    /\ \A k \in 1..4 : zoom.levels[k].level = k

(* the curve resolution never decreases from one level to the next *)
LevelsNeverDecrease ==
    \A k \in 1..(Len(zoom.levels) - 1) :
        zoom.levels[k].settings.curveSegments
            <= zoom.levels[k + 1].settings.curveSegments

(* C22 (as stated): for every valid shape the ladder has exactly 4         *)
(* settings in the order Low, Medium, High, Ultra, whose curveResolution   *)
(* is the base resolution times 0.5, 1.0, 2.0 and 4.0 respectively, so     *)
(* resolution never decreases from one rung to the next.                   *)
C22_LadderIsBaseTimesMultiplier ==
    HasLevels =>
        /\ FourLevelsInOrder
        /\ \A k \in 1..4 :
              zoom.levels[k].settings.curveSegments * Hundred
                = zoom.analysis.optimalSettings.curveSegments
                    * LadderMultipliers[k]
        /\ LevelsNeverDecrease

(* C22 (amended): for every valid shape the ladder has exactly 4 settings  *)
(* in the order Low, Medium, High, Ultra, whose curveResolution is the     *)
(* base resolution times 0.5, 1.0, 2.0 and 4.0 respectively, rounded down  *)
(* to a whole number, so resolution never decreases from one rung to the   *)
(* next.                                                                   *)
C22_LadderIsFloorOfBaseTimesMultiplier ==
    HasLevels =>
        /\ FourLevelsInOrder
        /\ \A k \in 1..4 :
              LET product == zoom.analysis.optimalSettings.curveSegments
                               * LadderMultipliers[k]
                  level == zoom.levels[k].settings.curveSegments
              IN  /\ level % Hundred = 0
                  /\ level * Hundred <= product
                  /\ product < (level + Hundred) * Hundred
        /\ LevelsNeverDecrease

(* a ladder over the odd base 33: Low 16, Medium 33, High 66, Ultra 132 *)
C22_Witness ==
    /\ HasLevels
    /\ zoom.analysis.optimalSettings.curveSegments = Whole(33)
    /\ zoom.levels[1].settings.curveSegments = Whole(16)
    /\ zoom.levels[4].settings.curveSegments = Whole(132)

(* C23: every settings the planner produces, from the plan and from each   *)
(* level of the ladder, has depthSteps between 1 and 4 inclusive; for the  *)
(* plan, depthSteps equals clamp(floor(complexityScore / 50), 1, 4).       *)
C23_DepthStepsWithinOneAndFour ==
    /\ \A settings \in ProducedSettings :
          /\ Whole(1) <= settings.steps
          /\ settings.steps <= Whole(4)
    /\ Analysed =>
          LET quotient == zoom.analysis.analysis.complexity \div 50
          IN  zoom.analysis.optimalSettings.steps =
                  Whole(IF quotient < 1 THEN 1
                        ELSE IF quotient > 4 THEN 4 ELSE quotient)

(* C24: for every curveCommandCount >= 0 the plan has bevelSegments =      *)
(* clamp(curveCommandCount / 2, 2, 8): 2 for counts up to 4, 8 for counts  *)
(* of 16 or more, and never a value outside [2, 8].                        *)
C24_BevelSegmentsClamped ==
    Analysed =>
        LET curveCount == zoom.analysis.analysis.curveCount
            bevelSegments == zoom.analysis.optimalSettings.bevelSegments
        IN  /\ Whole(2) <= bevelSegments
            /\ bevelSegments <= Whole(8)
            /\ curveCount <= 4 => bevelSegments = Whole(2)
            /\ curveCount >= 16 => bevelSegments = Whole(8)
            /\ (4 < curveCount /\ curveCount < 16)
                  => bevelSegments * 2 = Whole(curveCount)

(* a plan held at the lower limit: 3 letters, 1.5 raised to 2 *)
C24_Witness ==
    /\ Analysed
    /\ zoom.analysis.analysis.curveCount = 3
    /\ zoom.analysis.optimalSettings.bevelSegments = Whole(2)

(* C25: for every curveCommandCount the plan has bevelEnabled = true       *)
(* exactly when curveCommandCount > 5, bevelThickness = 0.3 exactly when   *)
(* curveCommandCount > 10 and 0.1 otherwise, and bevelSize = 0.2 exactly   *)
(* when curveCommandCount > 10 and 0.05 otherwise; the counts 5 and 10     *)
(* fall on the lower side.                                                 *)
C25_BevelThresholds ==
    Analysed =>
        LET curveCount == zoom.analysis.analysis.curveCount
            settings == zoom.analysis.optimalSettings
        IN  /\ settings.bevelEnabled <=> (curveCount > 5)
            /\ settings.bevelThickness \in {10, 30}
            /\ (settings.bevelThickness = 30) <=> (curveCount > 10)
            /\ settings.bevelSize \in {5, 20}
            /\ (settings.bevelSize = 20) <=> (curveCount > 10)
            /\ curveCount = 5 => ~settings.bevelEnabled
            /\ curveCount = 10 =>
                  /\ settings.bevelThickness = 10
                  /\ settings.bevelSize = 5

(* a plan on a boundary: 5 letters without bevel *)
C25_Witness ==
    /\ Analysed
    /\ zoom.analysis.analysis.curveCount = 5
    /\ ~zoom.analysis.optimalSettings.bevelEnabled
    /\ zoom.analysis.optimalSettings.bevelThickness = 10

(* C26: in every settings the planner produces (the plan and all levels    *)
(* of the ladder) curveResolution, bevelSegments and depthSteps are whole  *)
(* numbers, for every complexityScore and every curveCommandCount.         *)
C26_WholeNumbers ==
    \A settings \in ProducedSettings :
        /\ settings.curveSegments % Hundred = 0
        /\ settings.bevelSegments % Hundred = 0
        /\ settings.steps % Hundred = 0

----------------------------------------------------------------------------
(* PerformanceOptimizer.batchProcessSVGs *)

(* Bound of the explored inputs *)
MaxInputs == 7

(* const batchSize = 3 *)
batchSize == 3

(* the files handed to a batch *)
BatchInputs == {"a.svg", "b.svg"}

(* processSingleSVG(_input, _options): the promised value *)
ProcessSingleSVG(input, options) == [success |-> TRUE, data |-> "null"]

(* inputs.slice(i, i + batchSize) mapped to the calls of processSingleSVG: *)
(* one pending promise per input; index is the place of the input in       *)
(* inputs, settledAt the turn at which the promise settled (0: pending)    *)
BatchPromises(inputs, i) ==
    LET last == MathMin(i + batchSize, Len(inputs))
    IN  [k \in 1..(last - i) |->
            [index |-> i + k, input |-> inputs[i + k],
             state |-> "pending", settledAt |-> 0]]

(* the values handed over in the order the promises settled *)
PromiseAllAsSettled(promises) ==
    [k \in 1..Len(promises) |->
        LET j == CHOOSE j \in 1..Len(promises) : promises[j].settledAt = k
        IN  [value |-> promises[j].value, of |-> promises[j].index]]

(* Promise.all(batchPromises): the values in the order of the promises;    *)
(* of names the input a value was computed for                             *)
PromiseAll(promises) ==
    [k \in 1..Len(promises) |->
        [value |-> promises[k].value, of |-> promises[k].index]]

Pending(promises) ==
    {k \in 1..Len(promises) : promises[k].state = "pending"}

BatchInit ==
    /\ impl = "advanced"
    /\ pc = "idle"
    /\ pathData = <<>>
    /\ parser = ResetParser
    /\ shape = NewShape
    /\ emitted = <<>>
    /\ sp = NewSimple
    /\ file = NoFile
    /\ zoom = NoZoom
    /\ viewer = NoViewer
    /\ zoomable = NoZoomable
    /\ \E n \in 0..MaxInputs : \E inputs \in [1..n -> BatchInputs] :
          batch = [pc |-> "loop", inputs |-> inputs, i |-> 0,
                   promises |-> <<>>, results |-> <<>>, progress |-> <<>>]

(* the head of the for loop with i < inputs.length: the batch is sliced    *)
(* and every call of processSingleSVG is made before the await             *)
StartBatch ==
    /\ batch.pc = "loop"
    /\ batch.i < Len(batch.inputs)
    /\ batch' = [batch EXCEPT
                   !.pc = "awaiting",
                   !.promises = BatchPromises(batch.inputs, batch.i)]
    /\ UNCHANGED <<converters, viewer, zoomable>>

(* one call of processSingleSVG completes; the calls of a batch complete   *)
(* in any order                                                            *)
SettlePromise ==
    /\ batch.pc = "awaiting"
    /\ \E k \in Pending(batch.promises) :
          batch' = [batch EXCEPT
                      !.promises[k] =
                          [index |-> @.index, input |-> @.input,
                           state |-> "fulfilled",
                           settledAt |-> Len(batch.promises)
                                           - Cardinality(Pending(batch.promises))
                                           + 1,
                           value |-> ProcessSingleSVG(@.input, "options")]]
    /\ UNCHANGED <<converters, viewer, zoomable>>

(* await Promise.all resumes: results.push(...batchResults), onProgress,   *)
(* forceGarbageCollection, up to the await of the timeout                  *)
AwaitBatch ==
    /\ batch.pc = "awaiting"
    /\ Pending(batch.promises) = {}
    /\ batch' = [batch EXCEPT
                   !.pc = "timeout",
                   !.results = @ \o PromiseAll(batch.promises),
                   !.progress =
                       Append(@, <<MathMin(batch.i + batchSize,
                                           Len(batch.inputs)),
                                   Len(batch.inputs)>>)]
    /\ UNCHANGED <<converters, viewer, zoomable>>

(* the timeout of 0 ms fires: i += batchSize *)
TimeoutFires ==
    /\ batch.pc = "timeout"
    /\ batch' = [batch EXCEPT !.pc = "loop", !.i = @ + batchSize]
    /\ UNCHANGED <<converters, viewer, zoomable>>

(* the head of the for loop with i >= inputs.length: return results *)
ReturnResults ==
    /\ batch.pc = "loop"
    /\ batch.i >= Len(batch.inputs)
    /\ batch' = [batch EXCEPT !.pc = "returned"]
    /\ UNCHANGED <<converters, viewer, zoomable>>

BatchNext ==
    \/ StartBatch
    \/ SettlePromise
    \/ AwaitBatch
    \/ TimeoutFires
    \/ ReturnResults

BatchSpec == BatchInit /\ [][BatchNext]_vars

----------------------------------------------------------------------------
(* Properties of the batch *)

(* the calls started and not yet completed *)
InFlight == {batch.promises[k].index : k \in Pending(batch.promises)}

(* the inputs of the batches before the one holding input j *)
EarlierBatches(j) == 1..(((j - 1) \div 3) * 3)

(* C27: batchProcessSVGs returns exactly one result per input, with result *)
(* i belonging to input i, whatever the order in which the concurrently    *)
(* started items of a batch complete; at no time are more than 3 items in  *)
(* flight, and no item of a batch is started before every item of the      *)
(* previous batch has finished.                                            *)
C27_BatchResultsInInputOrder ==
    /\ batch.pc = "returned" => Len(batch.results) = Len(batch.inputs)
    /\ \A k \in 1..Len(batch.results) : batch.results[k].of = k
    /\ Cardinality(InFlight) <= 3
    /\ \A k \in 1..Len(batch.promises) :
          \A j \in EarlierBatches(batch.promises[k].index) :
              /\ j <= Len(batch.results)
              /\ batch.results[j].of = j

(* six inputs returned whose second batch completed last item first *)
C27_Witness ==
    /\ batch.pc = "returned"
    /\ Len(batch.inputs) = 6
    /\ batch.inputs[4] # batch.inputs[6]
    /\ batch.promises[1].index = 4
    /\ batch.promises[1].settledAt = 3
    /\ batch.promises[3].settledAt = 1

----------------------------------------------------------------------------
(* Properties of the joins of an outline *)

(* the point the last drawn command left the outline at: the end of the    *)
(* closing line after a close that drew one, else the shape's currentPoint *)
LastOutlinePoint ==
    IF emitted[Len(emitted)].op = "Z" /\ shape.curves # <<>>
    THEN shape.curves[Len(shape.curves)].v2
    ELSE shape.currentPoint

(* C28: after every command of any command sequence the parser's current   *)
(* point equals the last point appended to the outline: the points emitted *)
(* for a curve or an arc end exactly at the command's end point, and the   *)
(* point reached by a close equals the subpath start the parser resets to. *)
C28_CurrentPointIsLastOutlinePoint ==
    (/\ impl = "advanced"
     /\ pc = "loop"
     /\ emitted # <<>>
     /\ ~HasUnsupportedLetter(pathData))
        => LastOutlinePoint = Vec(Fx(Current[1]), Fx(Current[2]))

----------------------------------------------------------------------------
(* ImprovedSVGViewer and its ImprovedSVGProcessor *)

(* Bound of the explored renders after the mount *)
MaxRenders == 2

(* {...a, ...b} *)
Spread(a, b) ==
    [k \in (DOMAIN a) \cup (DOMAIN b) |-> IF k \in DOMAIN b THEN b[k] ELSE a[k]]

(* DEFAULT_OPTIONS, the fields the presets and the props below write *)
DEFAULT_OPTIONS ==
    [depth |-> 100, bevelSegments |-> 8, curveSegments |-> 128, steps |-> 4]

(* getQualityPresets(quality) *)
GetQualityPresets(quality) ==
    CASE quality = "low" ->
            [curveSegments |-> 32, bevelSegments |-> 4, steps |-> 2]
      [] quality = "medium" ->
            [curveSegments |-> 64, bevelSegments |-> 6, steps |-> 3]
      [] quality = "high" ->
            [curveSegments |-> 128, bevelSegments |-> 8, steps |-> 4]
      [] quality = "ultra" ->
            [curveSegments |-> 256, bevelSegments |-> 12, steps |-> 6]

(* new ImprovedSVGProcessor(options) *)
NewProcessor(options) == [options |-> Spread(DEFAULT_OPTIONS, options)]

(* updateOptions(newOptions) *)
UpdateOptions(processor, newOptions) ==
    [processor EXCEPT !.options = Spread(@, newOptions)]

(* finalOptions of processSVG *)
FinalOptions(options) ==
    IF "quality" \in DOMAIN options
    THEN Spread(options, GetQualityPresets(options.quality))
    ELSE options

(* the props a parent passes *)
SvgFiles == {"null", "a.svg", "b.svg"}
SvgUrls == {"null", "/c.svg"}
OptionsProps == { [depth |-> 50], [depth |-> 50, quality |-> "low"] }

ViewerProps ==
    [svgFile : SvgFiles, svgUrl : SvgUrls, options : OptionsProps]

(* processSVG up to its await: setLoading(true), setError(null),           *)
(* updateOptions on processorRef.current, and the call of processSVGFile   *)
(* or processSVGFromURL, which stays pending                               *)
ProcessSVG(v) ==
    [v EXCEPT
        !.loading = TRUE,
        !.error = "null",
        !.processors[v.current] =
            UpdateOptions(@, FinalOptions(v.props.options)),
        !.requests =
            Append(@, [source |-> IF v.props.svgFile # "null"
                                  THEN v.props.svgFile ELSE v.props.svgUrl,
                       processor |-> v.current,
                       state |-> "pending"])]

(* the effect: if (svgFile || svgUrl) processSVG() *)
Effect(v) ==
    IF v.props.svgFile # "null" \/ v.props.svgUrl # "null"
    THEN ProcessSVG(v)
    ELSE v

(* useState<ProcessedSVGData | null>(null): no data *)
NoResult == [source |-> "null"]

(* the first render: useState, useMemo, then the effect *)
Mount(props) ==
    Effect([pc |-> "mounted", props |-> props, renders |-> 0,
            result |-> NoResult, loading |-> FALSE, error |-> "null",
            processors |-> << NewProcessor(props.options) >>, current |-> 1,
            requests |-> <<>>])

ViewerInit ==
    /\ impl = "advanced"
    /\ pc = "idle"
    /\ pathData = <<>>
    /\ parser = ResetParser
    /\ shape = NewShape
    /\ emitted = <<>>
    /\ sp = NewSimple
    /\ file = NoFile
    /\ zoom = NoZoom
    /\ batch = NoBatch
    /\ zoomable = NoZoomable
    /\ \E props \in ViewerProps : viewer = Mount(props)

(* a render with new props: useMemo makes a new processor when the options *)
(* changed, and the effect runs again when one of its dependencies         *)
(* changed (the source, the options, or the identity of onLoad / onError)  *)
Render ==
    /\ viewer.renders < MaxRenders
    /\ \E props \in ViewerProps : \E callbacksChanged \in BOOLEAN :
          LET optionsChanged == props.options # viewer.props.options
              depsChanged == \/ props.svgFile # viewer.props.svgFile
                             \/ props.svgUrl # viewer.props.svgUrl
                             \/ optionsChanged
                             \/ callbacksChanged
              rendered ==
                  [viewer EXCEPT
                      !.props = props,
                      !.renders = @ + 1,
                      !.processors =
                          IF optionsChanged
                          THEN Append(@, NewProcessor(props.options))
                          ELSE @,
                      !.current =
                          IF optionsChanged
                          THEN Len(viewer.processors) + 1
                          ELSE @]
          IN  viewer' = IF depsChanged THEN Effect(rendered) ELSE rendered
    /\ UNCHANGED <<converters, batch, zoomable>>

(* a pending call of processSVGFile / processSVGFromURL succeeds:          *)
(* createGeometryFromSVG reads the options of its processor, and processSVG *)
(* resumes with setResult(data), onLoad and, finally, setLoading(false)    *)
RequestSucceeds ==
    /\ \E r \in 1..Len(viewer.requests) :
          /\ viewer.requests[r].state = "pending"
          /\ viewer' =
               [viewer EXCEPT
                   !.requests[r].state = "succeeded",
                   !.result =
                       [source |-> viewer.requests[r].source,
                        options |->
                          viewer.processors[viewer.requests[r].processor].options],
                   !.loading = FALSE]
    /\ UNCHANGED <<converters, batch, zoomable>>

(* a pending call fails (wrong file type, unreadable file, failed fetch,   *)
(* no shapes): setError(errorMsg), onError and, finally, setLoading(false) *)
RequestFails ==
    /\ \E r \in 1..Len(viewer.requests) :
          /\ viewer.requests[r].state = "pending"
          /\ viewer' =
               [viewer EXCEPT
                   !.requests[r].state = "failed",
                   !.error = "error",
                   !.loading = FALSE]
    /\ UNCHANGED <<converters, batch, zoomable>>

ViewerNext ==
    \/ Render
    \/ RequestSucceeds
    \/ RequestFails

ViewerSpec == ViewerInit /\ [][ViewerNext]_vars

----------------------------------------------------------------------------
(* Properties of the viewer *)

InFlightRequests ==
    {r \in 1..Len(viewer.requests) : viewer.requests[r].state = "pending"}

LatestRequest == Len(viewer.requests)

(* C29: when the source or the options change while an earlier request is  *)
(* still in flight, then once every request has completed the displayed    *)
(* result is the one of the latest request and was computed with the       *)
(* latest options (a slower earlier request never overwrites a newer       *)
(* result), and loading is false only when no request is in flight.        *)
C29_LatestRequestWins ==
    /\ (/\ viewer.requests # <<>>
        /\ InFlightRequests = {}
        /\ viewer.requests[LatestRequest].state = "succeeded")
          => /\ viewer.result # NoResult
             /\ viewer.result.source = viewer.requests[LatestRequest].source
             /\ viewer.result.options =
                   viewer.processors[viewer.requests[LatestRequest].processor]
                       .options
    /\ ~viewer.loading => InFlightRequests = {}

----------------------------------------------------------------------------
(* ZoomableSVGViewer *)

(* Bound of the explored shapes of svgData *)
MaxShapes == 3

(* null, where a shape index is expected *)
null == 0 - 1

(* handleShapeClick(shapeIndex) *)
HandleShapeClick(z, shapeIndex) ==
    [z EXCEPT
        !.selectedShapeIndex = shapeIndex,
        !.zoomState = [@ EXCEPT !.isZoomed = TRUE,
                                !.zoomedShapeIndex = shapeIndex,
                                !.zoomLevel = 3]]

(* the selection left as it is *)
HandleZoomOutKeepsSelection(z) ==
    [z EXCEPT
        !.zoomState = [@ EXCEPT !.isZoomed = FALSE,
                                !.zoomedShapeIndex = null,
                                !.zoomLevel = 1]]

(* handleZoomOut() *)
HandleZoomOut(z) ==
    [z EXCEPT
        !.zoomState = [@ EXCEPT !.isZoomed = FALSE,
                                !.zoomedShapeIndex = null,
                                !.zoomLevel = 1],
        !.selectedShapeIndex = null]

(* handleShowAll() *)
HandleShowAll(z) ==
    [z EXCEPT
        !.showAllShapes = TRUE,
        !.selectedShapeIndex = null,
        !.zoomState = [@ EXCEPT !.isZoomed = FALSE,
                                !.zoomedShapeIndex = null,
                                !.zoomLevel = 1]]

(* the useState cells of the first render, over svgData with some shapes *)
ZoomableInit ==
    /\ impl = "advanced"
    /\ pc = "idle"
    /\ pathData = <<>>
    /\ parser = ResetParser
    /\ shape = NewShape
    /\ emitted = <<>>
    /\ sp = NewSimple
    /\ file = NoFile
    /\ zoom = NoZoom
    /\ batch = NoBatch
    /\ viewer = NoViewer
    /\ \E shapes \in 0..MaxShapes :
          zoomable = [pc |-> "mounted",
                      shapes |-> shapes,
                      zoomState |-> [isZoomed |-> FALSE,
                                     zoomedShapeIndex |-> null,
                                     zoomLevel |-> 1],
                      selectedShapeIndex |-> null,
                      showAllShapes |-> TRUE,
                      detailLevel |-> 2,
                      showWireframe |-> FALSE,
                      showCurves |-> FALSE]

(* onClick of a mesh that is visible *)
ShapeClick ==
    /\ \E index \in 0..(zoomable.shapes - 1) :
          /\ zoomable.showAllShapes \/ zoomable.selectedShapeIndex = index
          /\ zoomable' = HandleShapeClick(zoomable, index)
    /\ UNCHANGED <<converters, batch, viewer>>

(* onClick of the Zoom Out button, disabled while not zoomed *)
ZoomOut ==
    /\ zoomable.zoomState.isZoomed
    /\ zoomable' = HandleZoomOut(zoomable)
    /\ UNCHANGED <<converters, batch, viewer>>

(* onClick of the Show All Shapes button *)
ShowAll ==
    /\ zoomable' = HandleShowAll(zoomable)
    /\ UNCHANGED <<converters, batch, viewer>>

(* onClick of the Wireframe button *)
ToggleWireframe ==
    /\ zoomable' = [zoomable EXCEPT !.showWireframe = ~@]
    /\ UNCHANGED <<converters, batch, viewer>>

(* onClick of the Curves button *)
ToggleCurves ==
    /\ zoomable' = [zoomable EXCEPT !.showCurves = ~@]
    /\ UNCHANGED <<converters, batch, viewer>>

(* onChange of the Detail Level range, min 1 max 4 *)
ChangeDetailLevel ==
    /\ \E value \in 1..4 :
          /\ value # zoomable.detailLevel
          /\ zoomable' = [zoomable EXCEPT !.detailLevel = value]
    /\ UNCHANGED <<converters, batch, viewer>>

ZoomableNext ==
    \/ ShapeClick
    \/ ZoomOut
    \/ ShowAll
    \/ ToggleWireframe
    \/ ToggleCurves
    \/ ChangeDetailLevel

ZoomableSpec == ZoomableInit /\ [][ZoomableNext]_vars

----------------------------------------------------------------------------
(* Properties of the zoom state *)

(* C30: after any sequence of shape clicks, zoom-outs and show-alls,       *)
(* isZoomed is true exactly when zoomedShapeIndex is not null, zoomLevel   *)
(* is 3 when zoomed and 1 otherwise, and selectedShapeIndex equals         *)
(* zoomedShapeIndex.                                                       *)
C30_ZoomStateConsistent ==
    /\ zoomable.zoomState.isZoomed
          <=> (zoomable.zoomState.zoomedShapeIndex # null)
    /\ zoomable.zoomState.zoomLevel
          = (IF zoomable.zoomState.isZoomed THEN 3 ELSE 1)
    /\ zoomable.selectedShapeIndex = zoomable.zoomState.zoomedShapeIndex

(* zoomed on the last of three shapes after a click on it *)
C30_Witness ==
    /\ zoomable.shapes = 3
    /\ zoomable.zoomState.isZoomed
    /\ zoomable.zoomState.zoomedShapeIndex = 2
    /\ zoomable.zoomState.zoomLevel = 3
    /\ zoomable.selectedShapeIndex = 2

====
